---- MODULE Spec2Model ----
(***************************************************************************)
(* State-machine model of the sat-download library: the Landsat8 service   *)
(* chain (sdownloader/landsat8.py), the per-band S3 downloader shared by   *)
(* Landsat8 and Sentinel2 (sdownloader/download.py, sentinel2.py), the     *)
(* Scene/Scenes result objects and the helpers of sdownloader/common.py.   *)
(* One download call is one behaviour: Init draws the call's arguments and *)
(* the downloader's construction parameters, every action is one step of   *)
(* the call.  The remote side (HEAD status of an object, inventory answer, *)
(* archive content, network failures) is chosen when the code asks for it  *)
(* and, for HEAD status and inventory answers, remembered in `remote`.     *)
(***************************************************************************)
EXTENDS Integers, Sequences, FiniteSets, TLC

\* ------------------------------------------------------------------ bounds
MaxScenes == 2
MaxChain == 2
MaxBands == 2
MaxOps == 2
MaxMembers == 3

\* ------------------------------------------------------- program constants
AMAZON_SERVICE == "amazon"
GOOGLE_CLOUD_SERVICE == "gcloud"
USGS_SERVICE == "usgs"

\* Landsat8._BAND_MAP: band name -> band id (ids are written as strings).
L8_BAND_MAP ==
    [n \in {"coastal", "blue", "green", "red", "nir", "swir1", "swir2", "pan",
            "cirrus", "tir1", "tir2", "quality"} |->
        CASE n = "coastal" -> "1" [] n = "blue" -> "2" [] n = "green" -> "3"
          [] n = "red" -> "4" [] n = "nir" -> "5" [] n = "swir1" -> "6"
          [] n = "swir2" -> "7" [] n = "pan" -> "8" [] n = "cirrus" -> "9"
          [] n = "tir1" -> "10" [] n = "tir2" -> "11" [] n = "quality" -> "QA"]

\* Sentinel2._BAND_MAP
S2_BAND_MAP ==
    [n \in {"coastal", "blue", "green", "red", "nir", "swir1", "swir2"} |->
        CASE n = "coastal" -> "1" [] n = "blue" -> "2" [] n = "green" -> "3"
          [] n = "red" -> "4" [] n = "nir" -> "8" [] n = "swir1" -> "11"
          [] n = "swir2" -> "12"]

L8_DEFAULT_BANDS == {"QA", "MTL"}

Range(f) == {f[x] : x \in DOMAIN f}

\* ------------------------------------------------------------ identifiers
\* The scene identifiers a call may be given, spelled character by character
\* so that length tests and slices are computed as the code computes them.
L8_A == <<"L","C","8","0","0","1","0","0","9","2","0","1","5","0","5","1","L","G","N","0","0">>
L8_B == <<"L","C","8","2","0","5","0","3","1","2","0","1","5","1","3","6","L","G","N","0","0">>
L8_SHORT == <<"L","C","8","0","0","1">>

Chars ==
    [s \in {"LC80010092015051LGN00", "LC82050312015136LGN00", "LC8001"} |->
        CASE s = "LC80010092015051LGN00" -> L8_A
          [] s = "LC82050312015136LGN00" -> L8_B
          [] s = "LC8001" -> L8_SHORT]

SceneIds == DOMAIN Chars

\* Python slice s[a:b] (0-based, end exclusive) of a character tuple.
Slice(cs, a, b) == SubSeq(cs, a + 1, b)

NoAnatomy == [path |-> <<>>, row |-> <<>>, sat |-> <<>>, scene |-> ""]

\* Landsat8.scene_interpreter: the anatomy of a 21-character identifier;
\* ok = FALSE stands for raise IncorrectLandsat8SceneId.
L8SceneInterpreter(scene_name) ==
    IF Len(Chars[scene_name]) = 21
    THEN [ok |-> TRUE,
          anatomy |-> [path |-> Slice(Chars[scene_name], 3, 6),
                       row |-> Slice(Chars[scene_name], 6, 9),
                       sat |-> <<"L">> \o Slice(Chars[scene_name], 2, 3),
                       scene |-> scene_name]]
    ELSE [ok |-> FALSE, anatomy |-> NoAnatomy]

\* ------------------------------------------------------------------ bands
\* A converter that also turns a band id back into a name of the band.
BandConverter_BothWays(map, bands) ==
    {IF bands[k] \in DOMAIN map THEN map[bands[k]]
     ELSE IF bands[k] \in Range(map) THEN CHOOSE n \in DOMAIN map : map[n] = bands[k]
     ELSE bands[k] : k \in DOMAIN bands}

\* Landsat8._band_converter / Sentinel2._band_converter: the tokens yielded
\* for a requested band sequence (an empty or None request yields nothing).
BandConverter(map, bands) ==
    {IF bands[k] \in DOMAIN map THEN map[bands[k]] ELSE bands[k] : k \in DOMAIN bands}

\* Landsat8.band_filename; ok = FALSE stands for raise IncorrectLandsat8SceneId.
L8BandFilename(scene_id, band_id) ==
    IF band_id = "MTL"
    THEN [ok |-> TRUE, name |-> [scene |-> scene_id, band |-> band_id, ext |-> "txt"]]
    ELSE IF band_id \in Range(L8_BAND_MAP)
    THEN [ok |-> TRUE, name |-> [scene |-> scene_id, band |-> "B" \o band_id, ext |-> "TIF"]]
    ELSE [ok |-> FALSE, name |-> [scene |-> scene_id, band |-> band_id, ext |-> ""]]

\* --------------------------------------------------------- result objects
\* download.Scene: a name and the ordered list of its local files.
Scene(name, files) == [name |-> name, files |-> files]

\* download.Scenes.__init__ with no scenes: an empty list and an empty index.
EmptyScenes == [scenes_list |-> <<>>, scenes_dict |-> <<>>]

\* An add that puts the new scene in the place of the list entry of its name.
ScenesAdd_Replace(S, scene) ==
    [scenes_list |-> IF \E k \in DOMAIN S.scenes_list : S.scenes_list[k].name = scene.name
                     THEN [k \in DOMAIN S.scenes_list |->
                              IF S.scenes_list[k].name = scene.name THEN scene
                              ELSE S.scenes_list[k]]
                     ELSE Append(S.scenes_list, scene),
     scenes_dict |-> [n \in DOMAIN S.scenes_dict \cup {scene.name} |->
                         IF n = scene.name THEN scene ELSE S.scenes_dict[n]]]

\* download.Scenes.add: append to the list, (re)bind the name in the index.
ScenesAdd(S, scene) ==
    [scenes_list |-> Append(S.scenes_list, scene),
     scenes_dict |-> [n \in DOMAIN S.scenes_dict \cup {scene.name} |->
                         IF n = scene.name THEN scene ELSE S.scenes_dict[n]]]

\* download.Scenes.add_with_files
ScenesAddWithFiles(S, name, files) == ScenesAdd(S, Scene(name, files))

\* download.Scenes.merge of another collection: its scenes are read by
\* index 0, 1, ... (Scenes.__getitem__) and added one by one.
RECURSIVE MergeFrom_Backwards(_, _, _)
MergeFrom_Backwards(S, other, k) ==
    IF k > Len(other.scenes_list) THEN S
    ELSE ScenesAdd(MergeFrom_Backwards(S, other, k + 1), other.scenes_list[k])

RECURSIVE MergeFrom(_, _, _)
MergeFrom(S, other, k) ==
    IF k > Len(other.scenes_list) THEN S
    ELSE MergeFrom(ScenesAdd(S, other.scenes_list[k]), other, k + 1)

ScenesMerge(S, other) == MergeFrom(S, other, 1)

\* download.Scenes.scenes: the names in iteration order.
ScenesNames(S) == [k \in DOMAIN S.scenes_list |-> S.scenes_list[k].name]

\* ------------------------------------------------------------- exceptions
Exc(kind, args, site) == [kind |-> kind, args |-> args, site |-> site]
NoExc == Exc("", <<>>, "")

\* The error classes an `except RemoteFileDoesntExist` clause catches: the
\* class itself (sdownloader.errors defines no subclass of it).
RemoteFileDoesntExistKinds == {"RemoteFileDoesntExist"}

\* A Python value handed to a Scenes method: a Scene (is_scene) or an object
\* of another type.
SceneValue(scene) == [is_scene |-> TRUE, value |-> scene]
NotAScene == [is_scene |-> FALSE, value |-> Scene("", <<>>)]

\* A Python value handed to Scenes.merge: a Scenes or an object of another type.
ScenesValue(S) == [is_scenes |-> TRUE, value |-> S]
NotAScenes == [is_scenes |-> FALSE, value |-> EmptyScenes]

\* A validate that lets every object pass.
Validate_Anything(arg) == TRUE

\* download.Scenes.validate: FALSE stands for raise Exception.
Validate(arg) == arg.is_scene

\* The outcome of a method of a Scenes: the collection afterwards and the
\* exception raised, if any.
Outcome(S, e) == [S |-> S, exc |-> e]

\* download.Scenes.add on any argument.
Add(S, arg) ==
    IF Validate(arg) THEN Outcome(ScenesAdd(S, arg.value), NoExc)
    ELSE Outcome(S, Exc("Exception", <<"scene must be an instance of Scene">>, "download.py:68"))

\* download.Scenes.merge on any argument.
Merge(S, arg) ==
    IF arg.is_scenes THEN Outcome(ScenesMerge(S, arg.value), NoExc)
    ELSE Outcome(S, Exc("Exception", <<"scenes must be an instance of Scenes">>, "download.py:74"))

\* download.Scenes.__setitem__ with an int key (0-based): the value is
\* validated, then stored in the list; the index is left as it is.
SetItemInt(S, key, arg) ==
    IF ~Validate(arg)
    THEN Outcome(S, Exc("Exception", <<"scene must be an instance of Scene">>, "download.py:68"))
    ELSE IF key + 1 \notin DOMAIN S.scenes_list
    THEN Outcome(S, Exc("IndexError", <<>>, "download.py:47"))
    ELSE Outcome([S EXCEPT !.scenes_list[key + 1] = arg.value], NoExc)

\* download.Scenes.__setitem__ with a str key: the value is validated, then
\* bound to the key in the index; the list is left as it is.
SetItemStr(S, key, arg) ==
    IF ~Validate(arg)
    THEN Outcome(S, Exc("Exception", <<"scene must be an instance of Scene">>, "download.py:68"))
    ELSE Outcome([S EXCEPT !.scenes_dict =
                     [n \in DOMAIN S.scenes_dict \cup {key} |->
                         IF n = key THEN arg.value ELSE S.scenes_dict[n]]], NoExc)

\* download.Scenes.__len__: the number of index keys.
ScenesLen(S) == Cardinality(DOMAIN S.scenes_dict)

\* The number of scenes an iteration over a Scenes yields: __getitem__ is
\* asked for 0, 1, ... until the list raises IndexError.
IterationLength(S) == Len(S.scenes_list)

\* download.Scenes.__init__ with a list of scenes: each one is added.
RECURSIVE Construct(_)
Construct(list) ==
    IF list = <<>> THEN EmptyScenes
    ELSE ScenesAdd(Construct(SubSeq(list, 1, Len(list) - 1)), list[Len(list)])

\* ------------------------------------------------------------------ state
VARIABLES
    cls,            \* the downloader class of the call's receiver
    method,         \* the method the caller invokes: "download" or "s3"
    scenes_type,    \* the Python type of the scenes argument
    archive_pool,   \* the member lists the remote archives may hold
    prior,          \* history: the band sets of earlier calls on the receiver
    coll,           \* a Scenes collection a caller operates on
    other,          \* a second Scenes collection, the argument of merge
    last,           \* history: the last operation on coll and its pre-state
    mrg,            \* the frame of a Scenes.merge that runs step by step
    trip,           \* a Sentinel-2 identifier and what the parsers made of it
    fetched,        \* history: the calls of common.fetch a caller made
    usgs_user,      \* Landsat8.usgs_user ("" stands for None)
    usgs_pass,      \* Landsat8.usgs_pass ("" stands for None)
    scenes,         \* download's scenes argument
    req_bands,      \* download's bands argument
    service_chain,  \* download's service_chain argument
    pc,             \* the call's position
    bands,          \* the band set handed to the backends
    band_order,     \* the order in which that set object iterates, once known
    si,             \* index of scene_id in `for scene_id in scenes`
    ci,             \* index of service_designator in `for ... in service_chain`
    scene_objs,     \* Landsat8.download's scene_objs
    s3f,            \* the frame of S3DownloadMixin.s3
    fsf,            \* the frame of Landsat8._fetch_scene
    result,         \* "running", "returned" or "raised"
    retval,         \* the Scenes returned to the caller
    exc,            \* the exception delivered to the caller
    remote,         \* what the remote side has answered so far, per object
    local,          \* files of the download directory met so far
    tmpdirs,        \* temporary directories that exist
    ntmp,           \* temporary directories created so far
    calls,          \* history: the external calls issued, in order
    caught          \* history: exceptions consumed by Landsat8.download

vars == <<cls, method, scenes_type, archive_pool, prior, coll, other, last,
          mrg,
          trip,
          fetched,
          usgs_user, usgs_pass, scenes, req_bands, service_chain, pc,
          bands, band_order, si, ci, scene_objs, s3f, fsf, result, retval,
          exc, remote, local, tmpdirs, ntmp, calls, caught>>

\* What no step of a call assigns: the receiver's fields, the arguments, the
\* remote archives, and the objects the call does not touch.
config == <<cls, method, scenes_type, archive_pool, prior, coll, other, last,
            mrg,
            trip,
            fetched,
            usgs_user, usgs_pass, scenes, req_bands, service_chain>>

\* Sequences over S of length at most n.
SeqUpTo(S, n) == UNION {[1..k -> S] : k \in 0..n}

\* All orders in which a finite set can be enumerated.
Orders(S) == {q \in [1..Cardinality(S) -> S] : Range(q) = S}

Designators == {AMAZON_SERVICE, GOOGLE_CLOUD_SERVICE, USGS_SERVICE, "ftp"}

NoS3Frame == [scenes |-> <<>>, i |-> 0, objs |-> EmptyScenes, path |-> NoAnatomy,
              urls |-> <<>>, files |-> <<>>, todo |-> <<>>, folder |-> <<>>]

\* No merge is running.
NoMerge == [stage |-> "none", self |-> FALSE, i |-> 0, held |-> 0, before |-> 0]

\* No identifier is being parsed.
NoTrip == [stage |-> "none", id |-> <<>>]

NoFetchFrame == [scene_id |-> "", svc |-> "", url |-> <<>>, tmp |-> 0, archive |-> <<>>,
                 wanted |-> {}, layout |-> <<>>, members |-> <<>>, extracted |-> <<>>]

\* The member lists, written as the tokens of their members, that the
\* archives of the remote side hold: band files and a member that is no band
\* file, or an archive that lacks band files.
DefaultArchives == {<<"QA", "README", "4", "MTL">>, <<"MTL">>}

\* No operation on a Scenes collection has been recorded.
NoOperation == [n |-> 0, op |-> "", key |-> "", arg |-> NotAScene, pre |-> EmptyScenes,
                pre_other |-> EmptyScenes, raised |-> NoExc]

\* The part of a state that every call starts from.
InitCall ==
    /\ pc = "start"
    /\ fetched = <<>>
    /\ prior = <<>>
    /\ coll = EmptyScenes
    /\ other = EmptyScenes
    /\ last = NoOperation
    /\ mrg = NoMerge
    /\ trip = NoTrip
    /\ bands = {}
    /\ band_order = <<>>
    /\ si = 0
    /\ ci = 0
    /\ scene_objs = EmptyScenes
    /\ s3f = NoS3Frame
    /\ fsf = NoFetchFrame
    /\ result = "running"
    /\ retval = EmptyScenes
    /\ exc = NoExc
    /\ remote = <<>>
    /\ local = <<>>
    /\ tmpdirs = {}
    /\ ntmp = 0
    /\ calls = <<>>
    /\ caught = <<>>

\* The types a caller's scenes argument may have: a list, or an iterable
\* that is no list.
ArgumentTypes == {"list", "tuple"}

\* The values a credential may have: None ("") or a string.  Only _usgs reads
\* the credentials, so they are varied for the chains that name 'usgs'.
Credentials(chain, value) ==
    IF USGS_SERVICE \in Range(chain) THEN {"", value} ELSE {""}

\* A Landsat8 downloader (landsat8.py:50-56) about to run download().
InitLandsat8 ==
    /\ cls = "Landsat8"
    /\ method = "download"
    /\ scenes_type \in ArgumentTypes
    /\ archive_pool = DefaultArchives
    /\ scenes \in SeqUpTo(SceneIds, MaxScenes)
    /\ req_bands \in {<<>>}
    /\ service_chain \in SeqUpTo(Designators, MaxChain)
    /\ usgs_user \in Credentials(service_chain, "user")
    /\ usgs_pass \in Credentials(service_chain, "secret")
    /\ InitCall

\* An entry of the history: an external call (op "head", "head_size",
\* "download", "makedirs", "login", "api_download", "mkdtemp", "tar_open",
\* "extract") or the recording of a Scene in scene_objs (op "record"), with
\* the positions in the scene list and in the chain at which it happened.
Call(op, svc, k, scene, item) ==
    [op |-> op, svc |-> svc, si |-> k, ci |-> ci, scene |-> scene, item |-> item]

\* -------------------------------------------------------------- urls, paths
\* common.url_builder over already slash-free segments: a base, the
\* directory segments and the file name.
UrlBuilder(base, dir, file) == [base |-> base, dir |-> dir, file |-> file]

\* Landsat8.amazon_s3_url; ok = FALSE when band_filename raises.
L8AmazonS3Url(sat, band_id) ==
    LET fn == L8BandFilename(sat.scene, band_id)
    IN [ok |-> fn.ok,
        url |-> UrlBuilder("landsat-pds.s3.amazonaws.com",
                           <<sat.sat, sat.path, sat.row, Chars[sat.scene]>>, fn.name)]

\* Landsat8.google_storage_url
L8GoogleStorageUrl(sat) ==
    UrlBuilder("storage.googleapis.com/earthengine-public/landsat",
               <<sat.sat, sat.path, sat.row>>,
               [scene |-> sat.scene, band |-> "", ext |-> "tar.bz"])

\* os.path.join(directory, v) for one more directory segment v, a Python
\* value: None (v.none) or a name.  None has no startswith, so
\* posixpath.join raises AttributeError (ok = FALSE).
PathJoin(dir, v) ==
    IF v.none THEN [ok |-> FALSE, path |-> dir]
    ELSE [ok |-> TRUE, path |-> Append(dir, v.seg)]

\* A file of a local directory.
LocalFile(dir, file) == [dir |-> dir, file |-> file]

\* S3DownloadMixin._relative_product_path, the only definition a Landsat8
\* instance has: the abstract stub, whose body is `pass`.
MixinRelativeProductPath(path) == [none |-> TRUE, seg |-> <<>>]

\* --------------------------------------------------------- control helpers
\* An exception propagates to the caller of download()/s3().
Propagate(e) ==
    /\ pc' = "done"
    /\ result' = "raised"
    /\ exc' = e
    /\ UNCHANGED <<ci, retval, caught>>

\* A handler that consumes every exception (`except Exception`).
Thrown_CatchAll(e) ==
    IF cls = "Landsat8"
    THEN /\ pc' = "for_service"
         /\ ci' = ci + 1
         /\ caught' = Append(caught, [si |-> si, ci |-> ci, svc |-> service_chain[ci], exc |-> e])
         /\ UNCHANGED <<result, retval, exc>>
    ELSE Propagate(e)

\* No handler at all: every exception propagates.
Thrown_NoCatch(e) == Propagate(e)

\* An exception leaves a backend call.  Inside Landsat8.download the call sits
\* in the try of landsat8.py:92-105: RemoteFileDoesntExist is consumed and the
\* chain moves on, anything else propagates.
Thrown(e) ==
    IF cls = "Landsat8" /\ e.kind \in RemoteFileDoesntExistKinds
    THEN /\ pc' = "for_service"
         /\ ci' = ci + 1
         /\ caught' = Append(caught, [si |-> si, ci |-> ci, svc |-> service_chain[ci], exc |-> e])
         /\ UNCHANGED <<result, retval, exc>>
    ELSE Propagate(e)

Goto(p) ==
    /\ pc' = p
    /\ UNCHANGED <<ci, result, retval, exc, caught>>

\* A missing `break`: the chain goes on with the same scene_id.
Break_Missing ==
    /\ pc' = "for_service"
    /\ ci' = ci + 1
    /\ UNCHANGED <<si, result, retval, exc, caught>>

\* A backend returned inside Landsat8.download: `break`, next scene_id.
Break ==
    /\ pc' = "for_scene"
    /\ si' = si + 1
    /\ UNCHANGED <<ci, result, retval, exc, caught>>

\* A remote_file_exists that takes every answer for a hit.
RemoteFileExists_AnyStatus(status) == TRUE

\* common.remote_file_exists (common.py:55-60): TRUE for status 200; FALSE
\* stands for raise RemoteFileDoesntExist.
RemoteFileExists(status) == status = 200

\* requests.head(url).status_code, answered consistently per url.
HeadStatus(url) ==
    IF url \in DOMAIN remote THEN {IF remote[url] THEN 200 ELSE 404} ELSE {200, 404}

Remember(url, status) == (url :> (status = 200)) @@ remote

\* ------------------------------------------------- Landsat8.download
\* A download that takes any iterable for a scene list.
Download_Unchecked ==
    /\ pc = "start"
    /\ cls = "Landsat8"
    /\ method = "download"
    /\ scene_objs' = EmptyScenes
    /\ bands' = L8_DEFAULT_BANDS \cup BandConverter(L8_BAND_MAP, req_bands)
    /\ si' = 1
    /\ Goto("for_scene")
    /\ UNCHANGED <<config, band_order, s3f, fsf, remote, local, tmpdirs, ntmp, calls>>

\* A download that hands the converted request to the backends as it is.
Download_NoDefaults ==
    /\ pc = "start"
    /\ cls = "Landsat8"
    /\ method = "download"
    /\ IF scenes_type = "list"
       THEN /\ scene_objs' = EmptyScenes
            /\ bands' = BandConverter(L8_BAND_MAP, req_bands)
            /\ si' = 1
            /\ Goto("for_scene")
       ELSE /\ Propagate(Exc("ValueError", <<"Expected sceneIDs list">>, "landsat8.py:111"))
            /\ UNCHANGED <<scene_objs, bands, si>>
    /\ UNCHANGED <<config, band_order, s3f, fsf, remote, local, tmpdirs, ntmp, calls>>

\* landsat8.py:83-87, 111: the argument must be a list; the band set is built.
Download ==
    /\ pc = "start"
    /\ cls = "Landsat8"
    /\ method = "download"
    /\ IF scenes_type = "list"
       THEN /\ scene_objs' = EmptyScenes
            /\ bands' = L8_DEFAULT_BANDS \cup BandConverter(L8_BAND_MAP, req_bands)
            /\ si' = 1
            /\ Goto("for_scene")
       ELSE /\ Propagate(Exc("ValueError", <<"Expected sceneIDs list">>, "landsat8.py:111"))
            /\ UNCHANGED <<scene_objs, bands, si>>
    /\ UNCHANGED <<config, band_order, s3f, fsf, remote, local, tmpdirs, ntmp, calls>>

\* landsat8.py:89: the next scene_id.
NextScene ==
    /\ pc = "for_scene"
    /\ si <= Len(scenes)
    /\ pc' = "for_service"
    /\ ci' = 1
    /\ UNCHANGED <<config, bands, band_order, si, scene_objs, s3f, fsf, result,
                   retval, exc, remote, local, tmpdirs, ntmp, calls, caught>>

\* landsat8.py:109: every scene_id is done.
ReturnScenes ==
    /\ pc = "for_scene"
    /\ si > Len(scenes)
    /\ pc' = "done"
    /\ result' = "returned"
    /\ retval' = scene_objs
    /\ UNCHANGED <<config, bands, band_order, si, ci, scene_objs, s3f, fsf, exc,
                   remote, local, tmpdirs, ntmp, calls, caught>>

\* An exhausted chain that skips the scene_id instead of raising.
ChainExhausted_Skip ==
    /\ pc = "for_service"
    /\ ci > Len(service_chain)
    /\ pc' = "for_scene"
    /\ si' = si + 1
    /\ UNCHANGED <<config, bands, band_order, ci, scene_objs, s3f, fsf, result, retval,
                   exc, remote, local, tmpdirs, ntmp, calls, caught>>

\* An exhausted chain whose error carries the scene_id.
ChainExhausted_Named ==
    /\ pc = "for_service"
    /\ ci > Len(service_chain)
    /\ Propagate(Exc("RemoteFileDoesntExist", <<scenes[si]>>, "landsat8.py:107"))
    /\ UNCHANGED <<config, bands, band_order, si, scene_objs, s3f, fsf,
                   remote, local, tmpdirs, ntmp, calls>>

\* landsat8.py:106-107: the chain ended without a break.
ChainExhausted ==
    /\ pc = "for_service"
    /\ ci > Len(service_chain)
    /\ Propagate(Exc("RemoteFileDoesntExist", <<>>, "landsat8.py:107"))
    /\ UNCHANGED <<config, bands, band_order, si, scene_objs, s3f, fsf,
                   remote, local, tmpdirs, ntmp, calls>>

\* landsat8.py:93-94: self.s3([scene_id], bands) is entered.
CallS3 ==
    /\ pc = "for_service"
    /\ ci <= Len(service_chain)
    /\ service_chain[ci] = AMAZON_SERVICE
    /\ s3f' = [NoS3Frame EXCEPT !.scenes = <<scenes[si]>>, !.i = 1]
    /\ Goto("s3_for_scene")
    /\ UNCHANGED <<config, bands, band_order, si, scene_objs, fsf,
                   remote, local, tmpdirs, ntmp, calls>>

\* landsat8.py:95-96: self._google(scene_id, bands) is entered.
CallGoogle ==
    /\ pc = "for_service"
    /\ ci <= Len(service_chain)
    /\ service_chain[ci] = GOOGLE_CLOUD_SERVICE
    /\ Goto("google")
    /\ UNCHANGED <<config, bands, band_order, si, scene_objs, s3f, fsf,
                   remote, local, tmpdirs, ntmp, calls>>

\* landsat8.py:97-98: self._usgs(scene_id, bands) is entered.
CallUsgs ==
    /\ pc = "for_service"
    /\ ci <= Len(service_chain)
    /\ service_chain[ci] = USGS_SERVICE
    /\ Goto("usgs")
    /\ UNCHANGED <<config, bands, band_order, si, scene_objs, s3f, fsf,
                   remote, local, tmpdirs, ntmp, calls>>

\* An unsupported designator reported with the continuable signal.
UnsupportedDesignator_Continuable ==
    /\ pc = "for_service"
    /\ ci <= Len(service_chain)
    /\ service_chain[ci] \notin {AMAZON_SERVICE, GOOGLE_CLOUD_SERVICE, USGS_SERVICE}
    /\ Thrown(Exc("RemoteFileDoesntExist", <<service_chain[ci]>>, "landsat8.py:100"))
    /\ UNCHANGED <<config, bands, band_order, si, scene_objs, s3f, fsf,
                   remote, local, tmpdirs, ntmp, calls>>

\* landsat8.py:99-102: any other designator.
UnsupportedDesignator ==
    /\ pc = "for_service"
    /\ ci <= Len(service_chain)
    /\ service_chain[ci] \notin {AMAZON_SERVICE, GOOGLE_CLOUD_SERVICE, USGS_SERVICE}
    /\ Thrown(Exc("Landsat8DownloaderException", <<service_chain[ci]>>, "landsat8.py:100"))
    /\ UNCHANGED <<config, bands, band_order, si, scene_objs, s3f, fsf,
                   remote, local, tmpdirs, ntmp, calls>>

\* ------------------------------------------------------ common.fetch
\* What fetch(url, dir) may find at dir/filename: nothing, a file of the
\* remote size, or a file of another size.  A fresh temporary directory
\* holds nothing.
LocalStates(f) ==
    IF f \in DOMAIN local THEN {local[f]}
    ELSE IF f.dir[1] = "download_dir" THEN {"absent", "same", "differs"}
    ELSE {"absent"}

\* The external call fetch issues for a file in state st (common.py:100-106):
\* a size request when the file exists, the download when it does not.
FetchCall(st) == IF st = "absent" THEN "download" ELSE "head_size"

\* The file's state after fetch returned.
AfterFetch(st) == IF st = "absent" THEN "same" ELSE st

\* ------------------------------------------------------------ Sentinel2
\* The Sentinel-2 identifiers a call may be given, and the tile path
\* Sentinel2.scene_interpreter computes for each: a name holding '/' and
\* 'tiles' is returned as it is, a tile name is parsed into its path.
S2_TILE_PATHS ==
    [s \in {"tiles/34/R/CS/2016/3/25/0", "S2A_tile_20160530_56WNV_0"} |->
        CASE s = "tiles/34/R/CS/2016/3/25/0" -> <<"tiles", "34", "R", "CS", "2016", "3", "25", "0">>
          [] s = "S2A_tile_20160530_56WNV_0" -> <<"tiles", "56", "W", "NV", "2016", "5", "30", "0">>]

S2SceneIds == DOMAIN S2_TILE_PATHS

S2SceneInterpreter(scene_name) == [ok |-> TRUE, anatomy |-> S2_TILE_PATHS[scene_name]]

\* wordpad.pad(band, 2): a one-character band id is zero-padded.
Pad2(band) ==
    IF band \in {"0", "1", "2", "3", "4", "5", "6", "7", "8", "9"} THEN "0" \o band ELSE band

\* Sentinel2.amazon_s3_url with its default suffix and format.
S2AmazonS3Url(path, band) ==
    [ok |-> TRUE,
     url |-> UrlBuilder("sentinel-s2-l1c.s3.amazonaws.com", path,
                        [scene |-> "", band |-> "B" \o Pad2(band), ext |-> "jp2"])]

\* Sentinel2._relative_product_path without a builder: the tile path with
\* its slashes replaced, one directory name.
S2RelativeProductPath(path) == [none |-> FALSE, seg |-> path]

\* ----------------------------------------------- what self.<method> is
SceneInterpreter(c, scene_name) ==
    IF c = "Landsat8" THEN L8SceneInterpreter(scene_name) ELSE S2SceneInterpreter(scene_name)

InterpreterError(c) ==
    IF c = "Landsat8" THEN Exc("IncorrectLandsat8SceneId", <<>>, "landsat8.py:251")
    ELSE Exc("IncorrectSentine2SceneId", <<>>, "sentinel2.py:96")

AmazonS3Url(c, path, band) ==
    IF c = "Landsat8" THEN L8AmazonS3Url(path, band) ELSE S2AmazonS3Url(path, band)

RelativeProductPath(c, path) ==
    IF c = "Landsat8" THEN MixinRelativeProductPath(path) ELSE S2RelativeProductPath(path)

\* The position, in the caller's scene list, of the scene being worked on.
CurIdx == IF cls = "Landsat8" THEN si ELSE s3f.i

\* sentinel2.py:67-70: the argument must be a list; s3 is entered with the
\* converted band set.
S2Download ==
    /\ pc = "start"
    /\ cls = "Sentinel2"
    /\ method = "download"
    /\ IF scenes_type = "list"
       THEN /\ bands' = BandConverter(S2_BAND_MAP, req_bands)
            /\ s3f' = [NoS3Frame EXCEPT !.scenes = scenes, !.i = 1]
            /\ Goto("s3_for_scene")
       ELSE /\ Propagate(Exc("ValueError", <<"Expected scene list">>, "sentinel2.py:70"))
            /\ UNCHANGED <<bands, s3f>>
    /\ UNCHANGED <<config, band_order, si, scene_objs, fsf, remote, local, tmpdirs,
                   ntmp, calls>>

\* download.py:88-96: s3 called by the caller itself, with the bands of
\* req_bands as they are; the argument must be a list.
S3Call ==
    /\ pc = "start"
    /\ method = "s3"
    /\ IF scenes_type = "list"
       THEN /\ bands' = Range(req_bands)
            /\ s3f' = [NoS3Frame EXCEPT !.scenes = scenes, !.i = 1]
            /\ Goto("s3_for_scene")
       ELSE /\ Propagate(Exc("Exception", <<"Expected scene list">>, "download.py:93"))
            /\ UNCHANGED <<bands, s3f>>
    /\ UNCHANGED <<config, band_order, si, scene_objs, fsf, remote, local, tmpdirs,
                   ntmp, calls>>

\* ------------------------------------------------- S3DownloadMixin.s3
\* An iteration that meets every band twice, as over a list with repeats.
IterationOrders_Repeating == {o \o o : o \in Orders(bands)}

\* `for band in bands`: a set iterates in an order the language leaves open
\* and the set object keeps; it is drawn the first time the set is iterated.
IterationOrders ==
    IF Len(band_order) = Cardinality(bands) THEN {band_order} ELSE Orders(bands)

\* download.py:98-103: the next scene of s3's list is interpreted.
S3Interpret ==
    /\ pc = "s3_for_scene"
    /\ s3f.i <= Len(s3f.scenes)
    /\ LET sat == SceneInterpreter(cls, s3f.scenes[s3f.i])
       IN IF sat.ok
          THEN /\ band_order' \in IterationOrders
               /\ s3f' = [s3f EXCEPT !.path = sat.anatomy, !.urls = <<>>,
                                     !.files = <<>>, !.todo = band_order']
               /\ Goto("s3_probe")
          ELSE /\ Thrown(InterpreterError(cls))
               /\ UNCHANGED <<s3f, band_order>>
    /\ UNCHANGED <<config, bands, si, scene_objs, fsf,
                   remote, local, tmpdirs, ntmp, calls>>

\* download.py:105-111: the url of the next band is built and probed.
S3Probe ==
    /\ pc = "s3_probe"
    /\ s3f.todo # <<>>
    /\ LET u == AmazonS3Url(cls, s3f.path, Head(s3f.todo))
           c == Call("head", AMAZON_SERVICE, CurIdx, s3f.scenes[s3f.i], Head(s3f.todo))
       IN IF ~u.ok
          THEN /\ Thrown(Exc("IncorrectLandsat8SceneId", <<>>, "landsat8.py:203"))
               /\ UNCHANGED <<s3f, remote, calls>>
          ELSE \/ /\ calls' = Append(calls, c)
                  /\ \E status \in HeadStatus(u.url) :
                        /\ remote' = Remember(u.url, status)
                        /\ IF RemoteFileExists(status)
                           THEN /\ s3f' = [s3f EXCEPT !.urls = Append(@, u.url),
                                                      !.todo = Tail(@)]
                                /\ Goto("s3_probe")
                           ELSE /\ Thrown(Exc("RemoteFileDoesntExist", <<>>, "common.py:60"))
                                /\ UNCHANGED s3f
               \/ /\ calls' = Append(calls, c)
                  /\ Thrown(Exc("ConnectionError", <<>>, "common.py:55"))
                  /\ UNCHANGED <<s3f, remote>>
    /\ UNCHANGED <<config, bands, band_order, si, scene_objs, fsf,
                   local, tmpdirs, ntmp>>

\* The files of every scene put into download_dir itself.
S3Folder_Flat ==
    /\ pc = "s3_probe"
    /\ s3f.todo = <<>>
    /\ LET folder == PathJoin(<<"download_dir">>, RelativeProductPath(cls, s3f.path))
       IN IF folder.ok
          THEN /\ s3f' = [s3f EXCEPT !.folder = <<"download_dir">>, !.todo = s3f.urls]
               /\ calls' = Append(calls, Call("makedirs", AMAZON_SERVICE, CurIdx,
                                              s3f.scenes[s3f.i], ""))
               /\ Goto("s3_fetch")
          ELSE /\ Thrown(Exc("AttributeError", <<>>, "download.py:113"))
               /\ UNCHANGED <<s3f, calls>>
    /\ UNCHANGED <<config, bands, band_order, si, scene_objs, fsf,
                   remote, local, tmpdirs, ntmp>>

\* download.py:113-115: every band exists; the scene's folder is made.
S3Folder ==
    /\ pc = "s3_probe"
    /\ s3f.todo = <<>>
    /\ LET folder == PathJoin(<<"download_dir">>, RelativeProductPath(cls, s3f.path))
       IN IF folder.ok
          THEN /\ s3f' = [s3f EXCEPT !.folder = folder.path, !.todo = s3f.urls]
               /\ calls' = Append(calls, Call("makedirs", AMAZON_SERVICE, CurIdx,
                                              s3f.scenes[s3f.i], ""))
               /\ Goto("s3_fetch")
          ELSE /\ Thrown(Exc("AttributeError", <<>>, "download.py:113"))
               /\ UNCHANGED <<s3f, calls>>
    /\ UNCHANGED <<config, bands, band_order, si, scene_objs, fsf,
                   remote, local, tmpdirs, ntmp>>

\* download.py:117-118: the next url is fetched into the folder.
S3Fetch ==
    /\ pc = "s3_fetch"
    /\ s3f.todo # <<>>
    /\ LET url == Head(s3f.todo)
           f == LocalFile(s3f.folder, url.file)
       IN \E st \in LocalStates(f) :
            /\ calls' = Append(calls, Call(FetchCall(st), AMAZON_SERVICE, CurIdx,
                                           s3f.scenes[s3f.i], url.file.band))
            /\ \/ /\ local' = (f :> AfterFetch(st)) @@ local
                  /\ s3f' = [s3f EXCEPT !.files = Append(@, f), !.todo = Tail(@)]
                  /\ Goto("s3_fetch")
               \/ /\ Thrown(Exc("ConnectionError", <<>>, "common.py:106"))
                  /\ UNCHANGED <<s3f, local>>
    /\ UNCHANGED <<config, bands, band_order, si, scene_objs, fsf,
                   remote, tmpdirs, ntmp>>

\* download.py:120: the scene and its files are added to s3's collection.
S3AddScene ==
    /\ pc = "s3_fetch"
    /\ s3f.todo = <<>>
    /\ s3f' = [s3f EXCEPT !.objs = ScenesAddWithFiles(@, s3f.scenes[s3f.i], s3f.files),
                          !.i = @ + 1]
    /\ Goto("s3_for_scene")
    /\ UNCHANGED <<config, bands, band_order, si, scene_objs, fsf,
                   remote, local, tmpdirs, ntmp, calls>>

\* download.py:122: s3 returns its collection.  Landsat8.download merges it
\* into scene_objs and breaks (landsat8.py:94, 103); Sentinel2.download
\* returns it to its caller (sentinel2.py:68).
S3Return ==
    /\ pc = "s3_for_scene"
    /\ s3f.i > Len(s3f.scenes)
    /\ IF cls = "Landsat8"
       THEN /\ scene_objs' = ScenesMerge(scene_objs, s3f.objs)
            /\ calls' = calls \o [k \in DOMAIN s3f.objs.scenes_list |->
                                    Call("record", AMAZON_SERVICE, si,
                                         s3f.objs.scenes_list[k].name, "")]
            /\ Break
       ELSE /\ pc' = "done"
            /\ result' = "returned"
            /\ retval' = s3f.objs
            /\ UNCHANGED <<scene_objs, si, ci, exc, caught, calls>>
    /\ UNCHANGED <<config, bands, band_order, s3f, fsf,
                   remote, local, tmpdirs, ntmp>>

\* ------------------------------------------------- Landsat8._google
\* landsat8.py:151-155: the archive's url is built and probed.
Google ==
    /\ pc = "google"
    /\ LET sat == L8SceneInterpreter(scenes[si])
           url == L8GoogleStorageUrl(sat.anatomy)
           c == Call("head", GOOGLE_CLOUD_SERVICE, si, scenes[si], "")
       IN IF ~sat.ok
          THEN /\ Thrown(InterpreterError("Landsat8"))
               /\ UNCHANGED <<fsf, remote, calls>>
          ELSE \/ /\ calls' = Append(calls, c)
                  /\ \E status \in HeadStatus(url) :
                        /\ remote' = Remember(url, status)
                        /\ IF RemoteFileExists(status)
                           THEN /\ fsf' = [NoFetchFrame EXCEPT !.scene_id = scenes[si],
                                              !.svc = GOOGLE_CLOUD_SERVICE, !.url = url]
                                /\ Goto("fetch_scene")
                           ELSE /\ Thrown(Exc("RemoteFileDoesntExist", <<>>, "common.py:60"))
                                /\ UNCHANGED fsf
               \/ /\ calls' = Append(calls, c)
                  /\ Thrown(Exc("ConnectionError", <<>>, "common.py:55"))
                  /\ UNCHANGED <<fsf, remote>>
    /\ UNCHANGED <<config, bands, band_order, si, scene_objs, s3f,
                   local, tmpdirs, ntmp>>

\* ------------------------------------------------- Landsat8._usgs
\* Missing login information reported with the continuable signal.
Usgs_Continuable ==
    /\ pc = "usgs"
    /\ IF usgs_user # "" /\ usgs_pass # ""
       THEN Goto("usgs_login")
       ELSE Thrown(Exc("RemoteFileDoesntExist", <<>>, "landsat8.py:139"))
    /\ UNCHANGED <<config, bands, band_order, si, scene_objs, s3f, fsf,
                   remote, local, tmpdirs, ntmp, calls>>

\* landsat8.py:125, 139: login information must have been provided.
Usgs ==
    /\ pc = "usgs"
    /\ IF usgs_user # "" /\ usgs_pass # ""
       THEN Goto("usgs_login")
       ELSE Thrown(Exc("Landsat8DownloaderException", <<>>, "landsat8.py:139"))
    /\ UNCHANGED <<config, bands, band_order, si, scene_objs, s3f, fsf,
                   remote, local, tmpdirs, ntmp, calls>>

\* landsat8.py:126-131: api.login; a USGSError becomes
\* USGSInventoryAccessMissing, a network failure propagates as it is.
UsgsLogin ==
    /\ pc = "usgs_login"
    /\ calls' = Append(calls, Call("login", USGS_SERVICE, si, scenes[si], ""))
    /\ \/ Goto("usgs_download")
       \/ Thrown(Exc("USGSInventoryAccessMissing", <<>>, "landsat8.py:131"))
       \/ Thrown(Exc("ConnectionError", <<>>, "landsat8.py:127"))
    /\ UNCHANGED <<config, bands, band_order, si, scene_objs, s3f, fsf,
                   remote, local, tmpdirs, ntmp>>

\* The inventory's entry for a scene, and the url api.download gives for it.
UsgsEntry(scene_id) ==
    UrlBuilder("earthexplorer.usgs.gov/inventory", <<>>,
               [scene |-> scene_id, band |-> "", ext |-> ""])

UsgsDownloadUrl(scene_id) ==
    UrlBuilder("earthexplorer.usgs.gov/download", <<>>,
               [scene |-> scene_id, band |-> "", ext |-> "tar.bz"])

\* landsat8.py:133-137: api.download; no url means the scene is absent.
UsgsResolve ==
    /\ pc = "usgs_download"
    /\ calls' = Append(calls, Call("api_download", USGS_SERVICE, si, scenes[si], ""))
    /\ \/ \E status \in HeadStatus(UsgsEntry(scenes[si])) :
            /\ remote' = Remember(UsgsEntry(scenes[si]), status)
            /\ IF status = 200
               THEN /\ fsf' = [NoFetchFrame EXCEPT !.scene_id = scenes[si],
                                  !.svc = USGS_SERVICE, !.url = UsgsDownloadUrl(scenes[si])]
                    /\ Goto("fetch_scene")
               ELSE /\ Thrown(Exc("RemoteFileDoesntExist", <<>>, "landsat8.py:137"))
                    /\ UNCHANGED fsf
       \/ /\ Thrown(Exc("USGSError", <<>>, "landsat8.py:133"))
          /\ UNCHANGED <<fsf, remote>>
    /\ UNCHANGED <<config, bands, band_order, si, scene_objs, s3f,
                   local, tmpdirs, ntmp>>

\* ------------------------------------------------- Landsat8._fetch_scene
TmpName(n) == "tmp" \o ToString(n)

\* The name of the archive member a token stands for: the file of a band,
\* or a file that belongs to no band.
MemberName(scene_id, token) ==
    IF token = "README" THEN [scene |-> scene_id, band |-> "README", ext |-> "txt"]
    ELSE L8BandFilename(scene_id, token).name

\* The member lists an archive of a scene may hold.
ArchiveLayouts(scene_id) ==
    {[k \in DOMAIN layout |-> MemberName(scene_id, layout[k])] : layout \in archive_pool}

\* TemporaryDirectory.__exit__ / cleanup (common.py:143-148).
Cleanup(name) == tmpdirs \ {name}

\* landsat8.py:158 and common.py:124-125: the temporary directory is made.
FetchSceneEnter ==
    /\ pc = "fetch_scene"
    /\ ntmp' = ntmp + 1
    /\ tmpdirs' = tmpdirs \cup {TmpName(ntmp + 1)}
    /\ fsf' = [fsf EXCEPT !.tmp = ntmp + 1]
    /\ calls' = Append(calls, Call("mkdtemp", fsf.svc, si, fsf.scene_id, ""))
    /\ Goto("fs_fetch")
    /\ UNCHANGED <<config, bands, band_order, si, scene_objs, s3f, remote, local>>

\* landsat8.py:159: fetch(url, temporary_directory).
FetchArchive ==
    /\ pc = "fs_fetch"
    /\ LET f == LocalFile(<<TmpName(fsf.tmp)>>, fsf.url.file)
       IN \E st \in LocalStates(f) :
            /\ calls' = Append(calls, Call(FetchCall(st), fsf.svc, si, fsf.scene_id, ""))
            /\ \/ /\ fsf' = [fsf EXCEPT !.archive = f]
                  /\ Goto("fs_names")
                  /\ UNCHANGED tmpdirs
               \/ /\ tmpdirs' = Cleanup(TmpName(fsf.tmp))
                  /\ Thrown(Exc("ConnectionError", <<>>, "common.py:106"))
                  /\ UNCHANGED fsf
    /\ UNCHANGED <<config, bands, band_order, si, scene_objs, s3f, remote, local, ntmp>>

\* landsat8.py:161: the wanted file names, one per band of the set.
BandFilenames ==
    /\ pc = "fs_names"
    /\ IF \A b \in bands : L8BandFilename(fsf.scene_id, b).ok
       THEN /\ fsf' = [fsf EXCEPT !.wanted = {L8BandFilename(fsf.scene_id, b).name : b \in bands}]
            /\ Goto("fs_open")
            /\ UNCHANGED tmpdirs
       ELSE /\ tmpdirs' = Cleanup(TmpName(fsf.tmp))
            /\ Thrown(Exc("IncorrectLandsat8SceneId", <<>>, "landsat8.py:203"))
            /\ UNCHANGED fsf
    /\ UNCHANGED <<config, bands, band_order, si, scene_objs, s3f, remote, local,
                   ntmp, calls>>

\* landsat8.py:165-167: the archive is opened for reading.
OpenArchive ==
    /\ pc = "fs_open"
    /\ calls' = Append(calls, Call("tar_open", fsf.svc, si, fsf.scene_id, ""))
    /\ \/ \E ms \in ArchiveLayouts(fsf.scene_id) :
            /\ fsf' = [fsf EXCEPT !.layout = ms, !.members = ms, !.extracted = <<>>]
            /\ Goto("fs_extract")
            /\ UNCHANGED tmpdirs
       \/ /\ tmpdirs' = Cleanup(TmpName(fsf.tmp))
          /\ Thrown(Exc("ReadError", <<>>, "landsat8.py:166"))
          /\ UNCHANGED fsf
    /\ UNCHANGED <<config, bands, band_order, si, scene_objs, s3f, remote, local, ntmp>>

\* Every member of the archive extracted, wanted or not.
ExtractMember_Everything ==
    /\ pc = "fs_extract"
    /\ fsf.members # <<>>
    /\ LET member == Head(fsf.members)
       IN /\ calls' = Append(calls, Call("extract", fsf.svc, si, fsf.scene_id, member.band))
          /\ fsf' = [fsf EXCEPT !.members = Tail(@),
                        !.extracted = Append(@, LocalFile(<<"download_dir", fsf.scene_id>>, member))]
    /\ Goto("fs_extract")
    /\ UNCHANGED <<config, bands, band_order, si, scene_objs, s3f, remote, local,
                   tmpdirs, ntmp>>

\* A failed extraction that leaves the temporary directory behind.
ExtractMember_Leak ==
    /\ pc = "fs_extract"
    /\ fsf.members # <<>>
    /\ LET member == Head(fsf.members)
       IN IF member \in fsf.wanted
          THEN /\ calls' = Append(calls, Call("extract", fsf.svc, si, fsf.scene_id, member.band))
               /\ \/ /\ fsf' = [fsf EXCEPT !.members = Tail(@),
                                     !.extracted = Append(@, LocalFile(<<"download_dir", fsf.scene_id>>, member))]
                     /\ Goto("fs_extract")
                  \/ /\ Thrown(Exc("ReadError", <<>>, "landsat8.py:169"))
                     /\ UNCHANGED fsf
          ELSE /\ fsf' = [fsf EXCEPT !.members = Tail(@)]
               /\ Goto("fs_extract")
               /\ UNCHANGED calls
    /\ UNCHANGED <<config, bands, band_order, si, scene_objs, s3f, remote, local,
                   tmpdirs, ntmp>>

\* landsat8.py:167-170: the next member is extracted when it is wanted;
\* archive.extract may fail on a damaged member.
ExtractMember ==
    /\ pc = "fs_extract"
    /\ fsf.members # <<>>
    /\ LET member == Head(fsf.members)
       IN IF member \in fsf.wanted
          THEN /\ calls' = Append(calls, Call("extract", fsf.svc, si, fsf.scene_id, member.band))
               /\ \/ /\ fsf' = [fsf EXCEPT !.members = Tail(@),
                                     !.extracted = Append(@, LocalFile(<<"download_dir", fsf.scene_id>>, member))]
                     /\ Goto("fs_extract")
                     /\ UNCHANGED tmpdirs
                  \/ /\ tmpdirs' = Cleanup(TmpName(fsf.tmp))
                     /\ Thrown(Exc("ReadError", <<>>, "landsat8.py:169"))
                     /\ UNCHANGED fsf
          ELSE /\ fsf' = [fsf EXCEPT !.members = Tail(@)]
               /\ Goto("fs_extract")
               /\ UNCHANGED <<calls, tmpdirs>>
    /\ UNCHANGED <<config, bands, band_order, si, scene_objs, s3f, remote, local, ntmp>>

\* The Scene recorded without the files that were extracted.
FetchSceneReturn_NoFiles ==
    /\ pc = "fs_extract"
    /\ fsf.members = <<>>
    /\ tmpdirs' = Cleanup(TmpName(fsf.tmp))
    /\ scene_objs' = ScenesAdd(scene_objs, Scene(fsf.scene_id, <<>>))
    /\ calls' = Append(calls, Call("record", fsf.svc, si, fsf.scene_id, ""))
    /\ Break
    /\ UNCHANGED <<config, bands, band_order, s3f, fsf, remote, local, ntmp>>

\* landsat8.py:158-159, 172 and 96/98, 103: the archive is closed, the
\* temporary directory removed, the Scene built, added to scene_objs, and
\* Landsat8.download breaks.
FetchSceneReturn ==
    /\ pc = "fs_extract"
    /\ fsf.members = <<>>
    /\ tmpdirs' = Cleanup(TmpName(fsf.tmp))
    /\ scene_objs' = ScenesAdd(scene_objs, Scene(fsf.scene_id, fsf.extracted))
    /\ calls' = Append(calls, Call("record", fsf.svc, si, fsf.scene_id, ""))
    /\ Break
    /\ UNCHANGED <<config, bands, band_order, s3f, fsf, remote, local, ntmp>>

\* ---------------------------------------------------------- specification
InitSentinel2 ==
    /\ cls = "Sentinel2"
    /\ method \in {"download", "s3"}
    /\ scenes_type \in ArgumentTypes
    /\ archive_pool = DefaultArchives
    /\ usgs_user = ""
    /\ usgs_pass = ""
    /\ scenes \in SeqUpTo(S2SceneIds, MaxScenes)
    /\ req_bands \in {<<"red", "8">>}
    /\ service_chain = <<>>
    /\ InitCall

Init == InitLandsat8 \/ InitSentinel2

Next ==
    \/ Download
    \/ NextScene
    \/ ReturnScenes
    \/ ChainExhausted
    \/ CallS3
    \/ CallGoogle
    \/ CallUsgs
    \/ UnsupportedDesignator
    \/ S2Download
    \/ S3Call
    \/ S3Interpret
    \/ S3Probe
    \/ S3Folder
    \/ S3Fetch
    \/ S3AddScene
    \/ S3Return
    \/ Google
    \/ Usgs
    \/ UsgsLogin
    \/ UsgsResolve
    \/ FetchSceneEnter
    \/ FetchArchive
    \/ BandFilenames
    \/ OpenArchive
    \/ ExtractMember
    \/ FetchSceneReturn

Spec == Init /\ [][Next]_vars

\* ------------------------------------- Landsat8.download with band requests
\* The band collections a caller may pass: nothing (empty or None, which
\* landsat8.py:59 treats alike), names and ids, metadata tokens, and tokens
\* that are no band (432, 'CirrUs' of test_download_with_unknown_band).
RequestedBands ==
    {<<>>, <<"red", "4">>, <<"quality", "MTL">>, <<"432">>, <<"CirrUs", "nir">>}

\* A Landsat8 downloader about to run download() on at most one scene with
\* one of these band requests.
InitLandsat8Bands ==
    /\ cls = "Landsat8"
    /\ method = "download"
    /\ scenes_type = "list"
    /\ archive_pool = DefaultArchives
    /\ scenes \in {<<>>, <<"LC80010092015051LGN00">>}
    /\ req_bands \in RequestedBands
    /\ service_chain \in SeqUpTo(Designators, MaxChain)
    /\ usgs_user \in Credentials(service_chain, "user")
    /\ usgs_pass \in Credentials(service_chain, "secret")
    /\ InitCall

\* The steps a download call on a Landsat8 can take.
NextLandsat8 ==
    \/ Download
    \/ NextScene
    \/ ReturnScenes
    \/ ChainExhausted
    \/ CallS3
    \/ CallGoogle
    \/ CallUsgs
    \/ UnsupportedDesignator
    \/ S3Interpret
    \/ S3Probe
    \/ S3Folder
    \/ Google
    \/ Usgs
    \/ UsgsLogin
    \/ UsgsResolve
    \/ FetchSceneEnter
    \/ FetchArchive
    \/ BandFilenames
    \/ OpenArchive
    \/ ExtractMember
    \/ FetchSceneReturn

SpecBands == InitLandsat8Bands /\ [][NextLandsat8]_vars

\* ------------------------------------------------- the archive backends
\* The tokens of the members an archive may hold: the files of the default
\* bands, the file of band 4, and a file that belongs to no band.
MemberTokens == {"QA", "MTL", "README", "4"}

\* The band requests made of the archive backends.
ArchiveRequests == {<<>>, <<"4">>, <<"red", "4">>}

\* A Landsat8 downloader about to run download() for one scene with one
\* archive backend in the chain; the scene's archive holds any members, in
\* any order, a name more than once included.
InitArchive ==
    /\ cls = "Landsat8"
    /\ method = "download"
    /\ scenes_type = "list"
    /\ archive_pool = SeqUpTo(MemberTokens, MaxMembers)
    /\ scenes = <<"LC80010092015051LGN00">>
    /\ req_bands \in ArchiveRequests
    /\ service_chain \in {<<GOOGLE_CLOUD_SERVICE>>, <<USGS_SERVICE>>}
    /\ usgs_user \in Credentials(service_chain, "user")
    /\ usgs_pass \in Credentials(service_chain, "secret")
    /\ InitCall

\* The steps of a download call that is served by the archive backends.
NextArchive ==
    \/ Download
    \/ NextScene
    \/ ReturnScenes
    \/ ChainExhausted
    \/ CallGoogle
    \/ CallUsgs
    \/ Google
    \/ Usgs
    \/ UsgsLogin
    \/ UsgsResolve
    \/ FetchSceneEnter
    \/ FetchArchive
    \/ BandFilenames
    \/ OpenArchive
    \/ ExtractMember
    \/ FetchSceneReturn

SpecArchive == InitArchive /\ [][NextArchive]_vars

\* ------------------------------------------------- the staging directories
\* Band requests with and without a token that is no band.
StagingRequests == {<<>>, <<"432">>}

\* A Landsat8 downloader about to run download() for up to MaxScenes scenes
\* that the archive backends serve.
InitStaging ==
    /\ cls = "Landsat8"
    /\ method = "download"
    /\ scenes_type = "list"
    /\ archive_pool = DefaultArchives
    /\ scenes \in SeqUpTo({"LC80010092015051LGN00", "LC82050312015136LGN00"}, MaxScenes)
    /\ req_bands \in StagingRequests
    /\ service_chain \in {<<GOOGLE_CLOUD_SERVICE>>, <<USGS_SERVICE>>,
                           <<GOOGLE_CLOUD_SERVICE, USGS_SERVICE>>}
    /\ usgs_user \in Credentials(service_chain, "user")
    /\ usgs_pass \in Credentials(service_chain, "secret")
    /\ InitCall

SpecStaging == InitStaging /\ [][NextArchive]_vars

\* ------------------------------------------------- the band set, computed twice
\* The tokens a band request is made of: band names, band ids, metadata
\* tokens and a token that is no band.
BandTokens == {"red", "quality", "4", "QA", "MTL", "432"}

\* A Landsat8 downloader about to run download() with a band request and no
\* scene: the call builds its band set and returns.
InitBandSet ==
    /\ cls = "Landsat8"
    /\ method = "download"
    /\ scenes_type = "list"
    /\ archive_pool = DefaultArchives
    /\ scenes = <<>>
    /\ req_bands \in SeqUpTo(BandTokens, MaxBands)
    /\ service_chain = <<>>
    /\ usgs_user = ""
    /\ usgs_pass = ""
    /\ InitCall

\* The caller runs download() once more, now requesting the band set the
\* first call built (a set, enumerated in some order).
DownloadAgain ==
    /\ pc = "done"
    /\ result = "returned"
    /\ prior = <<>>
    /\ prior' = <<bands>>
    /\ req_bands' \in Orders(bands)
    /\ pc' = "start"
    /\ result' = "running"
    /\ retval' = EmptyScenes
    /\ bands' = {}
    /\ si' = 0
    /\ scene_objs' = EmptyScenes
    /\ UNCHANGED <<cls, method, scenes_type, archive_pool, coll, other, last,
                   mrg,
                   trip,
                   fetched,
                   usgs_user, usgs_pass, scenes, service_chain, band_order, ci,
                   s3f, fsf, exc, remote, local, tmpdirs, ntmp, calls, caught>>

NextBandSet ==
    \/ Download
    \/ ReturnScenes
    \/ DownloadAgain

SpecBandSet == InitBandSet /\ [][NextBandSet]_vars

\* ------------------------------------------------- operations on a Scenes
\* The scenes a caller holds: two of one name with different files, and one
\* of another name.
Scenes_A1 == Scene("a", <<>>)
Scenes_A2 == Scene("a", <<"a_B4.TIF">>)
Scenes_B1 == Scene("b", <<>>)
SceneObjects == {Scenes_A1, Scenes_A2, Scenes_B1}

\* What a caller may hand where a Scene is expected.
SceneArguments == {SceneValue(x) : x \in SceneObjects} \cup {NotAScene}

\* The variables of a download call, which no operation on a Scenes assigns.
callstate == <<cls, method, scenes_type, archive_pool, prior, usgs_user, usgs_pass,
               mrg,
               trip,
               fetched,
               scenes, req_bands, service_chain, pc, bands, band_order, si, ci,
               scene_objs, s3f, fsf, result, retval, exc, remote, local, tmpdirs,
               ntmp, calls, caught>>

\* Two Scenes collections built by Scenes(scenes=[...]); no download call runs.
InitScenes ==
    /\ coll \in {Construct(l) : l \in SeqUpTo(SceneObjects, 1)}
    /\ other \in {Construct(l) : l \in SeqUpTo(SceneObjects, 2)}
    /\ last = NoOperation
    /\ mrg = NoMerge
    /\ trip = NoTrip
    /\ fetched = <<>>
    /\ cls = "Scenes"
    /\ method = ""
    /\ scenes_type = "list"
    /\ archive_pool = {}
    /\ prior = <<>>
    /\ usgs_user = ""
    /\ usgs_pass = ""
    /\ scenes = <<>>
    /\ req_bands = <<>>
    /\ service_chain = <<>>
    /\ pc = "idle"
    /\ bands = {}
    /\ band_order = <<>>
    /\ si = 0
    /\ ci = 0
    /\ scene_objs = EmptyScenes
    /\ s3f = NoS3Frame
    /\ fsf = NoFetchFrame
    /\ result = "running"
    /\ retval = EmptyScenes
    /\ exc = NoExc
    /\ remote = <<>>
    /\ local = <<>>
    /\ tmpdirs = {}
    /\ ntmp = 0
    /\ calls = <<>>
    /\ caught = <<>>

\* A method of coll has run with this outcome.
Operated(op, key, arg, out) ==
    /\ last.n < MaxOps
    /\ coll' = out.S
    /\ last' = [n |-> last.n + 1, op |-> op, key |-> key, arg |-> arg, pre |-> coll,
                pre_other |-> other, raised |-> out.exc]
    /\ UNCHANGED <<other, callstate>>

\* coll.add(x)
CallAdd ==
    /\ pc = "idle"
    /\ \E arg \in SceneArguments : Operated("add", "", arg, Add(coll, arg))

\* coll.add_with_files(name, files)
CallAddWithFiles ==
    /\ pc = "idle"
    /\ \E x \in {Scenes_A1, Scenes_A2} :
          Operated("add_with_files", "", SceneValue(x),
                   Outcome(ScenesAddWithFiles(coll, x.name, x.files), NoExc))

\* coll.merge(y) with y the other collection or an object that is no Scenes.
CallMerge ==
    /\ pc = "idle"
    /\ \E arg \in {ScenesValue(other), NotAScenes} :
          Operated(IF arg.is_scenes THEN "merge" ELSE "merge_other_type", "", NotAScene,
                   Merge(coll, arg))

\* coll[key] = x with an int key or a str key.
CallSetItem ==
    /\ pc = "idle"
    /\ \E arg \in {SceneValue(Scenes_A2), SceneValue(Scenes_B1), NotAScene} :
          \/ \E k \in 0..Len(coll.scenes_list) :
                Operated("setitem_int", ToString(k), arg, SetItemInt(coll, k, arg))
          \/ \E name \in {"a", "b"} :
                Operated("setitem_str", name, arg, SetItemStr(coll, name, arg))

NextScenes ==
    \/ CallAdd
    \/ CallAddWithFiles
    \/ CallMerge
    \/ CallSetItem

SpecScenes == InitScenes /\ [][NextScenes]_vars

\* ================================================================ claims
Recognized == {AMAZON_SERVICE, GOOGLE_CLOUD_SERVICE, USGS_SERVICE}
Done == pc = "done"
IsL8 == cls = "Landsat8"

\* Errors that come from the network, the inventory or the archive reader.
CollaboratorErrors == {"ConnectionError", "USGSError", "USGSInventoryAccessMissing", "ReadError"}

\* The remote objects a backend needs for a scene.
Objects(svc, scene) ==
    LET sat == L8SceneInterpreter(scene)
    IN IF svc = USGS_SERVICE THEN {UsgsEntry(scene)}
       ELSE IF ~sat.ok THEN {}
       ELSE IF svc = GOOGLE_CLOUD_SERVICE THEN {L8GoogleStorageUrl(sat.anatomy)}
       ELSE {L8AmazonS3Url(sat.anatomy, b).url : b \in bands}

\* The backend has answered for every object of the scene that it exists.
Has(svc, scene) ==
    /\ Objects(svc, scene) # {}
    /\ \A o \in Objects(svc, scene) : o \in DOMAIN remote /\ remote[o]

\* The backend has answered for an object of the scene that it is absent.
Lacks(svc, scene) ==
    \E o \in Objects(svc, scene) : o \in DOMAIN remote /\ ~remote[o]

\* The attempt at chain position c for the scene at position i ended with
\* the remote-object-absent signal, consumed by Landsat8.download.
SignalledAbsent(i, c) == \E k \in DOMAIN caught : caught[k].si = i /\ caught[k].ci = c

\* The history entries that record a Scene for the scene at position i.
Records(i) == {p \in DOMAIN calls : calls[p].op = "record" /\ calls[p].si = i}

\* The chain was entered for the scene at position i and every chain entry
\* signalled the scene absent.
Exhausted(i) ==
    /\ i \in DOMAIN scenes
    /\ i < si \/ (i = si /\ pc \notin {"start", "for_scene"})
    /\ \A c \in DOMAIN service_chain : SignalledAbsent(i, c)

\* C1: with a chain [A, B] of recognized backends, A lacking every scene of
\* the list and B holding it (and no network, inventory or archive failure),
\* download returns a Scenes holding each scene as recorded from B.
C1_FallbackToSecond ==
    ( /\ IsL8 /\ Done
      /\ Len(service_chain) = 2
      /\ service_chain[1] \in Recognized /\ service_chain[2] \in Recognized
      /\ scenes # <<>>
      /\ \A i \in DOMAIN scenes :
            Lacks(service_chain[1], scenes[i]) /\ Has(service_chain[2], scenes[i])
      /\ exc.kind \notin CollaboratorErrors )
    => ( /\ result = "returned"
         /\ ScenesNames(retval) = scenes
         /\ \A i \in DOMAIN scenes :
               \E p \in Records(i) : calls[p].svc = service_chain[2] )

\* C2: first success wins: once a Scene is recorded for the scene at position
\* i nothing more is issued for that position, at most one Scene is recorded
\* for it, and scene_objs lists exactly the recorded scenes, in order.
C2_FirstSuccessWins ==
    IsL8 =>
      /\ \A p, q \in DOMAIN calls :
            (p < q /\ calls[p].op = "record") => calls[q].si # calls[p].si
      /\ \A i \in DOMAIN scenes : Cardinality(Records(i)) <= 1
      /\ Len(scene_objs.scenes_list) = Cardinality({p \in DOMAIN calls : calls[p].op = "record"})
      /\ \A i \in DOMAIN scenes :
            Records(i) # {} => /\ i <= Len(scene_objs.scenes_list)
                               /\ scene_objs.scenes_list[i].name = scenes[i]

C2_Witness ==
    /\ IsL8 /\ Done /\ result = "returned"
    /\ \E i \in DOMAIN scenes : \E p \in Records(i) : calls[p].ci < Len(service_chain)

\* C3: when every chain entry signalled a scene absent (an empty chain
\* included), the call ends with the RemoteFileDoesntExist that
\* landsat8.py:107 raises, nothing is returned and no Scene is recorded for
\* that scene.
C3_ExhaustedRaises ==
    (IsL8 /\ Done) =>
      \A i \in DOMAIN scenes :
         Exhausted(i) => /\ result = "raised"
                         /\ exc.kind = "RemoteFileDoesntExist"
                         /\ exc.site = "landsat8.py:107"
                         /\ retval = EmptyScenes
                         /\ Records(i) = {}
                         /\ si = i

C3_Witness ==
    /\ IsL8 /\ Done /\ Len(service_chain) = 2 /\ Exhausted(1)
    /\ service_chain[1] # service_chain[2]

FetchOps == {"download", "head_size"}

\* The url s3 probes for a band of a scene.
ProbedUrl(scene, band) == AmazonS3Url(cls, SceneInterpreter(cls, scene).anatomy, band).url

\* C4: in s3, every band of the set is probed for a scene before anything is
\* fetched for it, no probe follows a fetch, and a scene with an absent band
\* gets no fetch at all: its attempt ends with RemoteFileDoesntExist (or
\* with the network failure of a probe).
C4_ProbeAllBeforeFetch ==
    /\ \A q \in DOMAIN calls :
          (calls[q].svc = AMAZON_SERVICE /\ calls[q].op \in FetchOps) =>
             {calls[p].item : p \in {r \in 1..(q - 1) :
                                        /\ calls[r].op = "head"
                                        /\ calls[r].svc = AMAZON_SERVICE
                                        /\ calls[r].si = calls[q].si
                                        /\ calls[r].ci = calls[q].ci}} = bands
    /\ \A p, q \in DOMAIN calls :
          ( /\ p < q
            /\ calls[p].svc = AMAZON_SERVICE /\ calls[p].op \in FetchOps
            /\ calls[q].svc = AMAZON_SERVICE /\ calls[q].op = "head" )
          => (calls[p].si # calls[q].si \/ calls[p].ci # calls[q].ci)
    /\ \A q \in DOMAIN calls :
          ( /\ calls[q].svc = AMAZON_SERVICE /\ calls[q].op = "head"
            /\ ProbedUrl(calls[q].scene, calls[q].item) \in DOMAIN remote
            /\ ~remote[ProbedUrl(calls[q].scene, calls[q].item)] )
          => /\ \A p \in DOMAIN calls :
                   (calls[p].svc = AMAZON_SERVICE /\ calls[p].op \in FetchOps)
                      => calls[p].scene # calls[q].scene
             /\ \/ SignalledAbsent(calls[q].si, calls[q].ci)
                \/ result = "raised" /\ exc.site = "common.py:60"
                \/ result = "raised" /\ exc.kind = "ConnectionError"

\* A Sentinel2 call whose first scene was probed and fetched band by band
\* and whose second scene has an absent band.
C4_Witness ==
    /\ cls = "Sentinel2" /\ Done /\ Cardinality(bands) >= 2
    /\ result = "raised" /\ exc.site = "common.py:60"
    /\ s3f.i = 2
    /\ Cardinality({p \in DOMAIN calls : calls[p].op = "download" /\ calls[p].si = 1})
          = Cardinality(bands)

NoCredentials == usgs_user = "" \/ usgs_pass = ""

\* C5 as claimed: without credentials an attempt on 'usgs' is continuable,
\* the chain moves on to the next entry.
C5_NoCredentialsContinuable ==
    [][(IsL8 /\ pc = "usgs" /\ NoCredentials)
          => (pc' = "for_service" /\ ci' = ci + 1 /\ result' = "running")]_vars

\* C5 amended: without credentials an attempt on 'usgs' aborts the call with
\* Landsat8DownloaderException; no later chain entry is tried.
C5_NoCredentialsAborts ==
    [][(IsL8 /\ pc = "usgs" /\ NoCredentials)
          => /\ pc' = "done" /\ result' = "raised"
             /\ exc'.kind = "Landsat8DownloaderException"
             /\ exc'.site = "landsat8.py:139"
             /\ ci' = ci /\ si' = si /\ calls' = calls /\ caught' = caught]_vars

C5_Witness ==
    /\ IsL8 /\ Done /\ NoCredentials
    /\ result = "raised" /\ exc.site = "landsat8.py:139"
    /\ ci < Len(service_chain)

\* C6: reaching a chain entry that is no recognized designator aborts the
\* call with Landsat8DownloaderException: the chain does not move on, nothing
\* more is issued, and nothing happens after the abort.
C6_UnsupportedAborts ==
    [][ /\ (IsL8 /\ pc = "for_service" /\ ci <= Len(service_chain)
               /\ service_chain[ci] \notin Recognized)
           => /\ pc' = "done" /\ result' = "raised"
              /\ exc'.kind = "Landsat8DownloaderException"
              /\ exc'.site = "landsat8.py:100"
              /\ ci' = ci /\ si' = si /\ calls' = calls /\ caught' = caught
        /\ (pc = "done") => FALSE ]_vars

C6_Witness ==
    /\ IsL8 /\ Done /\ result = "raised" /\ exc.site = "landsat8.py:100"
    /\ ci < Len(service_chain) /\ si < Len(scenes)

\* Position (i, c) of the scene list and the chain is not after (j, d).
NotAfter(i, c, j, d) == i < j \/ (i = j /\ c <= d)

\* C7: only RemoteFileDoesntExist is ever consumed; when any other error ends
\* the call, nothing was issued beyond the position at which it was raised,
\* the inventory was logged into at most once at that position, and the
\* caller gets the error.
C7_OtherErrorsAbort ==
    IsL8 =>
      /\ \A k \in DOMAIN caught : caught[k].exc.kind = "RemoteFileDoesntExist"
      /\ Len(caught) = Cardinality({<<caught[k].si, caught[k].ci>> : k \in DOMAIN caught})
      /\ (result = "running" /\ pc \notin {"start", "for_scene"})
            => Cardinality({k \in DOMAIN caught : caught[k].si = si}) = ci - 1
      /\ (result = "raised" /\ exc.kind # "RemoteFileDoesntExist")
            => /\ Done
               /\ exc.kind # ""
               /\ ~SignalledAbsent(si, ci)
               /\ \A p \in DOMAIN calls : NotAfter(calls[p].si, calls[p].ci, si, ci)
               /\ Cardinality({p \in DOMAIN calls : /\ calls[p].op = "login"
                                                    /\ calls[p].si = si
                                                    /\ calls[p].ci = ci}) <= 1

C7_Witness ==
    /\ IsL8 /\ Done /\ result = "raised"
    /\ exc.kind = "USGSInventoryAccessMissing"
    /\ ci < Len(service_chain)

\* C8: once a scene has exhausted the chain, nothing is issued for any scene
\* later in the list.
C8_StrictFail ==
    IsL8 =>
      \A i \in DOMAIN scenes :
         Exhausted(i) => /\ \A p \in DOMAIN calls : calls[p].si <= i
                         /\ si <= i
                         /\ pc \in {"for_service", "done"}

C8_Witness ==
    /\ IsL8 /\ Done /\ Exhausted(1) /\ Len(scenes) = 2 /\ Len(service_chain) >= 1

\* C9 as claimed: no download call ends by delivering RemoteFileDoesntExist
\* to its caller.
C9_SignalNeverSurfaces ==
    IsL8 => ~(result = "raised" /\ exc.kind = "RemoteFileDoesntExist")

\* C9 amended: a RemoteFileDoesntExist raised by a backend is consumed; the
\* only RemoteFileDoesntExist a download call delivers is the one
\* landsat8.py:107 raises, and it does so exactly when a scene has exhausted
\* the chain.
C9_OnlyExhaustionSurfaces ==
    IsL8 =>
      /\ (result = "raised" /\ exc.kind = "RemoteFileDoesntExist")
            => (exc.site = "landsat8.py:107" /\ Exhausted(si))
      /\ (Done /\ \E i \in DOMAIN scenes : Exhausted(i))
            => (result = "raised" /\ exc.kind = "RemoteFileDoesntExist")

C9_Witness ==
    /\ IsL8 /\ Done /\ result = "raised" /\ exc.kind = "RemoteFileDoesntExist"
    /\ \E k \in DOMAIN caught : caught[k].exc.site = "common.py:60"

\* C10 as claimed: the error of an exhausted chain names the scene.
C10_ErrorNamesScene ==
    (IsL8 /\ Done /\ \E i \in DOMAIN scenes : Exhausted(i))
       => \E a \in DOMAIN exc.args : exc.args[a] = scenes[si]

\* C10 amended: the error of an exhausted chain is a RemoteFileDoesntExist
\* without arguments; it names no scene.
C10_ErrorIsBare ==
    (IsL8 /\ Done /\ \E i \in DOMAIN scenes : Exhausted(i))
       => (result = "raised" /\ exc.kind = "RemoteFileDoesntExist" /\ exc.args = <<>>)

C10_Witness ==
    /\ IsL8 /\ Done /\ Exhausted(2) /\ Len(service_chain) = 1

\* The token a requested band stands for: the id of a band name, or the
\* token itself.
Normalized(token) == IF token \in DOMAIN L8_BAND_MAP THEN L8_BAND_MAP[token] ELSE token

\* The band set the claims expect for a request.
ExpectedBands(request) == {"QA", "MTL"} \cup {Normalized(request[k]) : k \in DOMAIN request}

\* C11: whatever the band request, once download has built its band set it
\* is {'QA','MTL'} united with the normalized request, and it is the set
\* every backend works with: s3 probes tokens of that set only, the archive
\* backends want exactly the file names of that set.
C11_DefaultsAlwaysPassed ==
    (IsL8 /\ method = "download" /\ pc # "start" /\ scenes_type = "list") =>
      /\ {"QA", "MTL"} \subseteq bands
      /\ bands = ExpectedBands(req_bands)
      /\ \A p \in DOMAIN calls :
            (calls[p].op = "head" /\ calls[p].svc = AMAZON_SERVICE)
               => calls[p].item \in ExpectedBands(req_bands)
      /\ pc = "s3_probe" => Range(s3f.todo) \subseteq ExpectedBands(req_bands)
      /\ pc \in {"fs_open", "fs_extract"}
            => fsf.wanted = {L8BandFilename(fsf.scene_id, b).name : b \in ExpectedBands(req_bands)}

\* A request of a band name and a band id, served by an archive backend.
C11_Witness ==
    /\ IsL8 /\ Done /\ result = "returned"
    /\ req_bands = <<"red", "4">> /\ bands = {"QA", "MTL", "4"}
    /\ Len(retval.scenes_list) = 1

\* C12: the band set is a fixed point of its own computation: requesting the
\* band set an earlier call built yields that same band set.
C12_Idempotent ==
    (IsL8 /\ Len(prior) = 1 /\ pc # "start") => bands = prior[1]

\* The second call has built its set from a first set that held a converted
\* name, an unknown token and the defaults.
C12_Witness ==
    /\ IsL8 /\ Done /\ Len(prior) = 1
    /\ prior[1] = {"QA", "MTL", "4", "432"}

\* The request holds a token that is neither a band id nor a metadata token.
InvalidBandRequested ==
    \E b \in ExpectedBands(req_bands) : ~L8BandFilename("LC80010092015051LGN00", b).ok

\* C13 as claimed: a download of some scene over a chain of recognized
\* designators with such a token ends with the error band_filename raises
\* (landsat8.py:203), whatever objects the remote side holds (network,
\* inventory and archive failures and missing credentials set aside).
C13_InvalidBandAlwaysReported ==
    ( /\ IsL8 /\ Done /\ method = "download" /\ scenes_type = "list"
      /\ InvalidBandRequested
      /\ scenes # <<>> /\ service_chain # <<>>
      /\ Range(service_chain) \subseteq Recognized
      /\ exc.kind \notin CollaboratorErrors
      /\ exc.kind # "Landsat8DownloaderException" )
    => ( /\ result = "raised"
         /\ exc.kind = "IncorrectLandsat8SceneId"
         /\ exc.site = "landsat8.py:203" )

\* The error each entry point raises for a scenes argument that is no list.
ExpectedListError ==
    IF method = "s3" THEN Exc("Exception", <<"Expected scene list">>, "download.py:93")
    ELSE IF IsL8 THEN Exc("ValueError", <<"Expected sceneIDs list">>, "landsat8.py:111")
    ELSE Exc("ValueError", <<"Expected scene list">>, "sentinel2.py:70")

\* C14: a scenes argument that is no list is rejected by Landsat8.download,
\* Sentinel2.download and s3 with their invalid-argument error, and nothing
\* has been parsed, probed, fetched or created when it is raised.
C14_NonListRejected ==
    (scenes_type # "list" /\ pc # "start") =>
      /\ Done /\ result = "raised"
      /\ exc = ExpectedListError
      /\ calls = <<>> /\ caught = <<>>
      /\ remote = <<>> /\ local = <<>> /\ tmpdirs = {} /\ ntmp = 0
      /\ s3f = NoS3Frame /\ fsf = NoFetchFrame
      /\ bands = {} /\ scene_objs = EmptyScenes /\ retval = EmptyScenes

\* s3 itself was handed two scenes in a tuple and has raised.
C14_Witness ==
    /\ Done /\ method = "s3" /\ scenes_type = "tuple" /\ Len(scenes) = 2
    /\ result = "raised"

\* The list entries of a Scenes that carry a name.
EntriesNamed(S, name) == {k \in DOMAIN S.scenes_list : S.scenes_list[k].name = name}

\* The name index and the ordered list of a Scenes are in sync.
InSync(S) ==
    /\ \A name \in DOMAIN S.scenes_dict :
          /\ Cardinality(EntriesNamed(S, name)) = 1
          /\ \A k \in EntriesNamed(S, name) : S.scenes_list[k] = S.scenes_dict[name]
    /\ \A k \in DOMAIN S.scenes_list :
          /\ S.scenes_list[k].name \in DOMAIN S.scenes_dict
          /\ S.scenes_dict[S.scenes_list[k].name] = S.scenes_list[k]

\* C15 as claimed: whatever operations were applied to a Scenes, its name
\* index and its ordered list are in sync.
C15_IndexAndListInSync ==
    cls = "Scenes" => InSync(coll)

\* The last operation added scenes to coll: one by add, those of the other
\* collection by merge.
Added ==
    IF last.op = "add" THEN <<last.arg.value>>
    ELSE IF last.op = "merge" THEN last.pre_other.scenes_list
    ELSE <<>>

\* C16: add or merge of scenes, some with a name already present: the old
\* list entries stay where they were and the new ones follow them, the name
\* index holds the newest scene of every added name, and len() counts the
\* names, so it does not grow for a name already present.
C16_DuplicateNameKeepsStaleEntry ==
    (cls = "Scenes" /\ last.op \in {"add", "merge"} /\ last.raised = NoExc) =>
      /\ coll.scenes_list = last.pre.scenes_list \o Added
      /\ IterationLength(coll) = IterationLength(last.pre) + Len(Added)
      /\ \A k \in DOMAIN Added :
            /\ Added[k].name \in DOMAIN coll.scenes_dict
            /\ (\A j \in DOMAIN Added : j > k => Added[j].name # Added[k].name)
                  => coll.scenes_dict[Added[k].name] = Added[k]
      /\ DOMAIN coll.scenes_dict = DOMAIN last.pre.scenes_dict \cup {Added[k].name : k \in DOMAIN Added}
      /\ (\A k \in DOMAIN Added : Added[k].name \in DOMAIN last.pre.scenes_dict)
            => ScenesLen(coll) = ScenesLen(last.pre)

\* A scene named 'a' was added to a collection that held another scene
\* named 'a'.
C16_Witness ==
    /\ cls = "Scenes" /\ last.op = "add" /\ last.raised = NoExc
    /\ last.arg.value = Scenes_A2
    /\ last.pre.scenes_list = <<Scenes_A1>>
    /\ ScenesLen(coll) = 1 /\ IterationLength(coll) = 2

\* C17: after X.merge(Y) with Y another collection, X lists its earlier
\* scenes in their order followed by the scenes of Y in Y's order, and Y is
\* as it was.
C17_MergePreservesOrder ==
    (cls = "Scenes" /\ last.op = "merge") =>
      /\ last.raised = NoExc
      /\ coll.scenes_list = last.pre.scenes_list \o last.pre_other.scenes_list
      /\ ScenesNames(coll) = ScenesNames(last.pre) \o ScenesNames(last.pre_other)
      /\ other = last.pre_other

\* A collection of two scenes was merged into a collection of one.
C17_Witness ==
    /\ cls = "Scenes" /\ last.op = "merge"
    /\ last.pre.scenes_list = <<Scenes_A1>>
    /\ last.pre_other.scenes_list = <<Scenes_B1, Scenes_A2>>
    /\ coll.scenes_list = <<Scenes_A1, Scenes_B1, Scenes_A2>>

\* C18: merge with an object that is no Scenes and add with an object that
\* is no Scene raise, and the list and the index of the collection are as
\* they were.
C18_RejectedArgumentChangesNothing ==
    cls = "Scenes" =>
      /\ (last.op = "merge_other_type" \/ (last.op = "add" /\ ~last.arg.is_scene))
            => /\ last.raised.kind = "Exception"
               /\ coll.scenes_list = last.pre.scenes_list
               /\ coll.scenes_dict = last.pre.scenes_dict
               /\ other = last.pre_other
      /\ \A k \in DOMAIN coll.scenes_list : coll.scenes_list[k] \in SceneObjects
      /\ \A name \in DOMAIN coll.scenes_dict : coll.scenes_dict[name] \in SceneObjects

\* An object that is no Scene was handed to add of a collection that holds
\* a scene.
C18_Witness ==
    /\ cls = "Scenes" /\ last.op = "add" /\ ~last.arg.is_scene
    /\ last.raised # NoExc /\ coll.scenes_list # <<>>

\* ------------------------------------------------- archive extraction
\* The members of an archive listing that are wanted, in the listing's order.
WantedMembers(ms, wanted) == SelectSeq(ms, LAMBDA m : m \in wanted)

\* The output paths of members extracted for a scene.
ExtractedPaths(ms, scene_id) ==
    [k \in DOMAIN ms |-> LocalFile(<<"download_dir", scene_id>>, ms[k])]

\* The members of the opened archive the loop has gone past.
Enumerated == SubSeq(fsf.layout, 1, Len(fsf.layout) - Len(fsf.members))

\* The archive.extract calls made so far.
ExtractCalls == SelectSeq(calls, LAMBDA c : c.op = "extract")

\* C19: while _extract_bands goes through an archive, and when it returns,
\* its list of output paths holds one path for each enumerated member whose
\* name is in the wanted set, in the order of enumeration, and nothing else;
\* archive.extract has been called for those members only, and going past a
\* member that is not wanted raises nothing.
C19_ExtractsExactlyWanted ==
    pc = "fs_extract" =>
        LET hits == WantedMembers(Enumerated, fsf.wanted)
        IN /\ fsf.extracted = ExtractedPaths(hits, fsf.scene_id)
           /\ ExtractCalls = [k \in DOMAIN hits |->
                                Call("extract", fsf.svc, si, fsf.scene_id, hits[k].band)]
           /\ result = "running"
           /\ exc = NoExc

\* _extract_bands is about to return from an archive in which a member that
\* is not wanted comes before two wanted ones.
C19_Witness ==
    /\ pc = "fs_extract" /\ fsf.members = <<>>
    /\ Len(fsf.layout) = 3
    /\ fsf.layout[1] \notin fsf.wanted
    /\ Len(fsf.extracted) = 2

\* The archive backends, and the Scene recorded for an identifier.
ArchiveServices == {GOOGLE_CLOUD_SERVICE, USGS_SERVICE}

RecordedByArchive(k) == calls[k].op = "record" /\ calls[k].svc \in ArchiveServices

RecordedFiles(k) == scene_objs.scenes_dict[calls[k].scene].files

\* The archive holds the file of every band of the set exactly once.
ArchiveComplete ==
    \A b \in bands :
        Cardinality({k \in DOMAIN fsf.layout :
                        fsf.layout[k] = L8BandFilename(fsf.scene_id, b).name}) = 1

\* C20 as stated: whenever an archive backend is recorded as having
\* succeeded for an identifier, the recorded Scene holds as many files as the
\* band set has tokens.
C20_OneFilePerBand ==
    \A k \in DOMAIN calls :
        RecordedByArchive(k) => Len(RecordedFiles(k)) = Cardinality(bands)

\* C20 amended: whenever an archive backend is recorded as having succeeded
\* for an identifier, the recorded Scene holds one file for each member of
\* the archive that is the file of a band of the set, in the archive's
\* order; it holds exactly one file for every token of the band set when the
\* archive holds the file of every band of the set exactly once.
C20_OneFilePerWantedMember ==
    \A k \in DOMAIN calls :
        RecordedByArchive(k) =>
            LET names == {L8BandFilename(calls[k].scene, b).name : b \in bands}
                files == RecordedFiles(k)
            IN /\ files = ExtractedPaths(WantedMembers(fsf.layout, names), calls[k].scene)
               /\ ArchiveComplete =>
                    /\ Len(files) = Cardinality(bands)
                    /\ {files[j].file : j \in DOMAIN files} = names

\* An archive backend is recorded for a scene whose archive held the file of
\* every band of the set once, next to a member that is no band's file.
C20_Witness ==
    /\ \E k \in DOMAIN calls : RecordedByArchive(k) /\ Len(RecordedFiles(k)) = 2
    /\ ArchiveComplete
    /\ Len(fsf.layout) = 3

\* ------------------------------------------------- staging directories
\* The steps of _fetch_scene inside its `with TemporaryDirectory()`.
InFetchScene == pc \in {"fs_fetch", "fs_names", "fs_open", "fs_extract"}

\* C21: the temporary directory of _fetch_scene exists only while
\* _fetch_scene runs: once it has terminated, by return or by any error, no
\* staging directory exists; while it runs, the only one that exists is its
\* own, made for the identifier being processed.
C21_StagingDirectoryScoped ==
    /\ ~InFetchScene => tmpdirs = {}
    /\ InFetchScene => /\ tmpdirs = {TmpName(fsf.tmp)}
                       /\ fsf.tmp = ntmp
                       /\ fsf.scene_id = scenes[si]

\* The second identifier is staged after the first one's _fetch_scene ended
\* with an error that the chain consumed or with a Scene.
C21_Witness ==
    /\ InFetchScene /\ si = 2 /\ ntmp >= 2
    /\ \E k \in DOMAIN calls : calls[k].op = "mkdtemp" /\ calls[k].si = 1

\* ------------------------------------------------- the returned collection
\* The names of the scenes an iteration over a Scenes yields: __getitem__ is
\* asked for 0, 1, ... and answers from the ordered list.
IteratedNames(S) == [k \in 1..IterationLength(S) |-> S.scenes_list[k].name]

\* C22: when download (of a Landsat8 with any chain, of a Sentinel2) or s3
\* returns, iterating the returned Scenes yields the names of the input
\* identifier list, element by element in the same order.
C22_ReturnedNamesAreInput ==
    result = "returned" => IteratedNames(retval) = scenes

\* A Landsat8 download of two different identifiers has returned.
C22_Witness ==
    /\ result = "returned" /\ cls = "Landsat8"
    /\ Len(scenes) = 2 /\ scenes[1] # scenes[2]
    /\ IterationLength(retval) = 2

\* ------------------------------------------------- destination layout
\* The directory, under download_dir, of an identifier's product: for a
\* Sentinel2 the relative product path of the identifier's tile path, for a
\* Landsat8 served from an archive the identifier itself.
ProductDirectory(c, name) ==
    IF c = "Landsat8" THEN <<"download_dir", name>>
    ELSE PathJoin(<<"download_dir">>,
                  RelativeProductPath(c, SceneInterpreter(c, name).anatomy)).path

AfterLast(cs, sep) ==
    LET at == {i \in DOMAIN cs : cs[i] = sep}
    IN IF at = {} THEN cs
       ELSE SubSeq(cs, (CHOOSE i \in at : \A j \in at : j <= i) + 1, Len(cs))

BeforeFirst(cs, sep) ==
    LET at == {i \in DOMAIN cs : cs[i] = sep}
    IN IF at = {} THEN cs
       ELSE SubSeq(cs, 1, (CHOOSE i \in at : \A j \in at : i <= j) - 1)

\* common.py:95-99: the file name of a url, its last segment without the
\* query parameters.
FetchFilename(url) == BeforeFirst(AfterLast(url, "/"), "?")

\* The urls a caller fetches: two remote objects of one file name, and one
\* with query parameters; and the content-length of each.
Url_A == <<"h", "/", "a", "/", "B", "4">>
Url_B == <<"h", "/", "b", "/", "B", "4">>
Url_Q == <<"h", "/", "a", "/", "T", "?", "k">>
FetchUrls == {Url_A, Url_B, Url_Q}

RemoteSize(url) == IF url = Url_B THEN 2 ELSE 1

\* The directories a caller fetches into.
FetchDirs == {<<"download_dir", "p">>, <<"tmp1">>}

\* The size of a file found in a directory; 0 stands for no file.
LocalSizes == {0, 1, 2}

NoPath == LocalFile(<<>>, <<>>)

\* What a call of fetch did: its arguments, the size of the file it found,
\* the remote size, the request it issued, what it returned or raised.
Fetched(url, path, found, request, returned, raised) ==
    [url |-> url, dir |-> path, found |-> found, remote |-> RemoteSize(url),
     request |-> request, returned |-> returned, raised |-> raised]

\* A caller about to use common.fetch; no download call runs.
InitFetch ==
    /\ cls = "fetch"
    /\ fetched = <<>>
    /\ coll = EmptyScenes
    /\ other = EmptyScenes
    /\ last = NoOperation
    /\ mrg = NoMerge
    /\ trip = NoTrip
    /\ method = ""
    /\ scenes_type = "list"
    /\ archive_pool = {}
    /\ prior = <<>>
    /\ usgs_user = ""
    /\ usgs_pass = ""
    /\ scenes = <<>>
    /\ req_bands = <<>>
    /\ service_chain = <<>>
    /\ pc = "idle"
    /\ bands = {}
    /\ band_order = <<>>
    /\ si = 0
    /\ ci = 0
    /\ scene_objs = EmptyScenes
    /\ s3f = NoS3Frame
    /\ fsf = NoFetchFrame
    /\ result = "running"
    /\ retval = EmptyScenes
    /\ exc = NoExc
    /\ remote = <<>>
    /\ local = <<>>
    /\ tmpdirs = {}
    /\ ntmp = 0
    /\ calls = <<>>
    /\ caught = <<>>

\* common.fetch(url, path) (common.py:95-109): when the file exists its size
\* is compared with the remote size, which only logs; the download is the
\* else of `if _path.exists(...)`.  Either request may fail.
CallFetch ==
    /\ cls = "fetch"
    /\ Len(fetched) < MaxOps
    /\ \E url \in FetchUrls, path \in FetchDirs :
         LET f == LocalFile(path, FetchFilename(url))
         IN \E found \in (IF f \in DOMAIN local THEN {local[f]} ELSE LocalSizes) :
              IF found # 0
              THEN \/ /\ local' = (f :> found) @@ local
                      /\ fetched' = Append(fetched, Fetched(url, path, found, "head_size", f, NoExc))
                   \/ /\ local' = (f :> found) @@ local
                      /\ fetched' = Append(fetched, Fetched(url, path, found, "head_size", NoPath,
                                                            Exc("ConnectionError", <<>>, "common.py:102")))
              ELSE \/ /\ local' = (f :> RemoteSize(url)) @@ local
                      /\ fetched' = Append(fetched, Fetched(url, path, found, "download", f, NoExc))
                   \/ /\ local' = (f :> found) @@ local
                      /\ fetched' = Append(fetched, Fetched(url, path, found, "download", NoPath,
                                                            Exc("ConnectionError", <<>>, "common.py:106")))
    /\ UNCHANGED <<cls, method, scenes_type, archive_pool, prior, coll, other, last,
                   mrg,
                   trip,
                   usgs_user, usgs_pass, scenes, req_bands, service_chain, pc, bands,
                   band_order, si, ci, scene_objs, s3f, fsf, result, retval, exc,
                   remote, tmpdirs, ntmp, calls, caught>>

SpecFetch == InitFetch /\ [][CallFetch]_vars

\* C24: a call of fetch that returns has skipped the download exactly when
\* it found a local file of the remote size, has downloaded the url in every
\* other case, and has returned the path directory/filename.
C24_DownloadsUnlessSameSize ==
    \A k \in DOMAIN fetched :
        LET r == fetched[k]
        IN r.raised = NoExc =>
              /\ (r.request # "download") <=> (r.found # 0 /\ r.found = r.remote)
              /\ r.returned = LocalFile(r.dir, FetchFilename(r.url))

\* ------------------------------------------------- Sentinel-2 identifiers
\* Strings are written as the sequences of their characters.
Digits == <<"0", "1", "2", "3", "4", "5", "6", "7", "8", "9">>
Letters == <<"A", "B", "C", "D", "E", "F", "G", "H", "I", "J", "K", "L", "M",
             "N", "O", "P", "Q", "R", "S", "T", "U", "V", "W", "X", "Y", "Z">>

IndexIn(seq, c) == CHOOSE i \in DOMAIN seq : seq[i] = c

IsDigit(c) == c \in Range(Digits)

\* A character of the class [a-b] of a regular expression.
InClass(c, a, b) ==
    /\ c \in Range(Letters)
    /\ IndexIn(Letters, a) <= IndexIn(Letters, c)
    /\ IndexIn(Letters, c) <= IndexIn(Letters, b)

\* str.split(sep)
RECURSIVE Split(_, _)
Split(cs, sep) ==
    LET at == {i \in DOMAIN cs : cs[i] = sep}
    IN IF at = {} THEN <<cs>>
       ELSE LET i == CHOOSE k \in at : \A j \in at : k <= j
            IN <<SubSeq(cs, 1, i - 1)>> \o Split(SubSeq(cs, i + 1, Len(cs)), sep)

\* str.join
RECURSIVE Join(_, _)
Join(parts, sep) ==
    IF Len(parts) = 0 THEN <<>>
    ELSE IF Len(parts) = 1 THEN parts[1]
    ELSE parts[1] \o <<sep>> \o Join(Tail(parts), sep)

\* int(s) for a string of decimal digits; anything else is a ValueError.
IsNumber(cs) == cs # <<>> /\ \A i \in DOMAIN cs : IsDigit(cs[i])

RECURSIVE ToInt(_)
ToInt(cs) ==
    IF cs = <<>> THEN 0
    ELSE 10 * ToInt(SubSeq(cs, 1, Len(cs) - 1)) + (IndexIn(Digits, cs[Len(cs)]) - 1)

\* str(n), as '{}'.format(n) writes an int.
RECURSIVE IntStr(_)
IntStr(n) ==
    IF n < 0 THEN <<"-">> \o IntStr(0 - n)
    ELSE IF n < 10 THEN <<Digits[n + 1]>>
    ELSE IntStr(n \div 10) \o <<Digits[(n % 10) + 1]>>

\* The dates of the calendar: datetime.date(year, month, day) and strptime
\* raise ValueError for any other.
DaysIn(year, month) ==
    IF month \in {4, 6, 9, 11} THEN 30
    ELSE IF month # 2 THEN 31
    ELSE IF (year % 4 = 0 /\ year % 100 # 0) \/ year % 400 = 0 THEN 29 ELSE 28

ValidDate(year, month, day) ==
    /\ year \in 1..9999 /\ month \in 1..12 /\ day \in 1..DaysIn(year, month)

NoDate == [year |-> 0, month |-> 0, day |-> 0]

\* datetime.strptime(s, '%Y%m%d') for a string of eight characters, and
\* strptime(s, '%Y%m%dT%H%M%S') for one of fifteen.
Strptime(cs, with_time) ==
    LET d == SubSeq(cs, 1, 8)
        date == [year |-> ToInt(SubSeq(d, 1, 4)), month |-> ToInt(SubSeq(d, 5, 6)),
                 day |-> ToInt(SubSeq(d, 7, 8))]
        t == SubSeq(cs, 10, 15)
    IN IF /\ Len(cs) = (IF with_time THEN 15 ELSE 8)
          /\ IsNumber(d)
          /\ ValidDate(date.year, date.month, date.day)
          /\ with_time => /\ cs[9] = "T" /\ IsNumber(t)
                          /\ ToInt(SubSeq(t, 1, 2)) < 24
                          /\ ToInt(SubSeq(t, 3, 4)) < 60
                          /\ ToInt(SubSeq(t, 5, 6)) < 62
       THEN [ok |-> TRUE, date |-> date]
       ELSE [ok |-> FALSE, date |-> NoDate]

\* What the parsers answer: the components, or the exception raised.
Components(utm, lat, square, date, seq) ==
    [ok |-> TRUE, kind |-> "", utm |-> utm, lat |-> lat, square |-> square,
     date |-> date, seq |-> seq]

ParseError(kind) ==
    [ok |-> FALSE, kind |-> kind, utm |-> 0, lat |-> <<>>, square |-> <<>>,
     date |-> NoDate, seq |-> 0]

\* The longest run of digits a string starts with: (\d+) of re.match.
RECURSIVE LeadingDigits(_)
LeadingDigits(cs) ==
    IF cs # <<>> /\ IsDigit(cs[1]) THEN <<cs[1]>> \o LeadingDigits(Tail(cs)) ELSE <<>>

\* Python slice s[a:b] of a string, which never raises.
StrSlice(cs, a, b) ==
    IF a >= Len(cs) THEN <<>> ELSE SubSeq(cs, a + 1, IF b > Len(cs) THEN Len(cs) ELSE b)

\* Sentinel2.parse_sentinel_scene_id (sentinel2.py:72-98).
ParseSentinelSceneId(scene_id) ==
    LET splitted == Split(scene_id, "_")
        n == Len(splitted)
    IN IF n > 5
       THEN LET tail == Split(splitted[n], ".")
                number == tail[Len(tail)]
                stamp == Strptime(splitted[n - 3], TRUE)
                mgrs == splitted[n - 1]
            IN IF ~IsNumber(number) \/ ~stamp.ok \/ ~IsNumber(StrSlice(mgrs, 1, 3))
               THEN ParseError("IncorrectSentine2SceneId")
               ELSE IF Len(mgrs) < 4 THEN ParseError("IndexError")
               ELSE Components(ToInt(StrSlice(mgrs, 1, 3)), <<mgrs[4]>>, StrSlice(mgrs, 4, 6),
                               stamp.date, ToInt(number) - 1)
       ELSE IF ~IsNumber(splitted[n]) THEN ParseError("IncorrectSentine2SceneId")
       ELSE IF n < 3 THEN ParseError("IndexError")
       ELSE IF ~Strptime(splitted[3], FALSE).ok THEN ParseError("IncorrectSentine2SceneId")
       ELSE IF n < 4 THEN ParseError("IndexError")
       ELSE LET field == splitted[4]
                utm == LeadingDigits(field)
                rest == SubSeq(field, Len(utm) + 1, Len(field))
            IN IF /\ utm # <<>> /\ Len(rest) >= 3
                  /\ \A i \in 1..3 : InClass(rest[i], "A", "Z")
               THEN Components(ToInt(utm), <<rest[1]>>, SubSeq(rest, 2, 3),
                               Strptime(splitted[3], FALSE).date, ToInt(splitted[n]))
               ELSE ParseError("IncorrectSentine2SceneId")

Tiles == <<"t", "i", "l", "e", "s">>

\* `x in s` for strings.
Contains(cs, x) ==
    \E i \in 1..(Len(cs) - Len(x) + 1) : SubSeq(cs, i, i + Len(x) - 1) = x

\* Sentinel2.scene_interpreter (sentinel2.py:116-139): ok = FALSE when
\* parse_sentinel_scene_id raises.
S2ScenePath(scene_name) ==
    IF Contains(scene_name, <<"/">>) /\ Contains(scene_name, Tiles)
    THEN [ok |-> TRUE, path |-> scene_name]
    ELSE LET p == ParseSentinelSceneId(scene_name)
         IN IF ~p.ok THEN [ok |-> FALSE, path |-> <<>>]
            ELSE [ok |-> TRUE,
                  path |-> Join(<<Tiles, IntStr(p.utm), p.lat, p.square, IntStr(p.date.year),
                                  IntStr(p.date.month), IntStr(p.date.day), IntStr(p.seq)>>, "/")]

\* Sentinel2.parse_amazon_s3_tile_path (sentinel2.py:100-114): re.match of
\* tiles/\d{2}/[C-X]/[A-X]{2}/\d{4}/\d{1,2}/\d{1,2}/\d{1,2} at the start of
\* the path, then datetime.date.  The components come back as strings.
ParseAmazonS3TilePath(path) ==
    LET seg == Split(path, "/")
        last_digits == LeadingDigits(IF Len(seg) >= 8 THEN seg[8] ELSE <<>>)
        seq == IF Len(last_digits) > 2 THEN SubSeq(last_digits, 1, 2) ELSE last_digits
    IN IF /\ Len(seg) >= 8
          /\ seg[1] = Tiles
          /\ Len(seg[2]) = 2 /\ IsNumber(seg[2])
          /\ Len(seg[3]) = 1 /\ InClass(seg[3][1], "C", "X")
          /\ Len(seg[4]) = 2 /\ \A i \in 1..2 : InClass(seg[4][i], "A", "X")
          /\ Len(seg[5]) = 4 /\ IsNumber(seg[5])
          /\ Len(seg[6]) \in 1..2 /\ IsNumber(seg[6])
          /\ Len(seg[7]) \in 1..2 /\ IsNumber(seg[7])
          /\ seq # <<>>
       THEN IF ValidDate(ToInt(seg[5]), ToInt(seg[6]), ToInt(seg[7]))
            THEN Components(seg[2], seg[3], seg[4],
                            [year |-> ToInt(seg[5]), month |-> ToInt(seg[6]),
                             day |-> ToInt(seg[7])], seq)
            ELSE ParseError("ValueError")
       ELSE ParseError("ValueError")

\* The identifiers a caller holds, in the short and in the long form.
ShortDates == {<<"2", "0", "1", "6", "0", "5", "2", "6">>,
               <<"2", "0", "1", "6", "1", "2", "3", "1">>,
               <<"2", "0", "1", "6", "0", "2", "3", "0">>}
ShortGrids == {<<"1", "V", "C", "H">>, <<"5", "6", "W", "N", "V">>, <<"3", "6", "U", "Y", "V">>,
               <<"3", "4", "R", "C", "S">>, <<"W", "N", "V">>}
ShortNumbers == {<<"0">>, <<"1", "2">>, <<"x">>}
LongGrids == {<<"T", "3", "4", "R", "C", "S">>, <<"T", "0", "1", "V", "C", "H">>,
              <<"T", "3", "6", "U", "Y", "V">>}
LongNumbers == {<<"N", "0", "2", ".", "0", "1">>, <<"N", "0", "2", ".", "1", "3">>,
                <<"N", "0", "2", ".", "0", "0">>, <<"N", "0", "2", ".", "w", "h", "a", "t">>}

ShortId(date, grid, number) ==
    Join(<<<<"S", "2", "A">>, <<"t", "i", "l", "e">>, date, grid, number>>, "_")

LongId(date, grid, number) ==
    Join(<<<<"S", "2", "A">>, <<"O", "P", "E", "R">>, <<"M", "S", "I">>, <<"L", "1", "C">>,
           <<"T", "L">>, <<"S", "G", "S">>, <<>>, date \o <<"T", "1", "5", "0", "9", "5", "5">>,
           <<"A", "0", "0", "3", "9", "5", "1">>, grid, number>>, "_")

S2Identifiers ==
    {ShortId(d, g, q) : d \in ShortDates, g \in ShortGrids, q \in ShortNumbers}
    \cup {LongId(d, g, q) : d \in ShortDates, g \in LongGrids, q \in LongNumbers}

\* A caller about to interpret an identifier; no download call runs.
InitRoundTrip ==
    /\ trip \in {[stage |-> "given", id |-> i] : i \in S2Identifiers}
    /\ cls = "Sentinel2"
    /\ fetched = <<>>
    /\ coll = EmptyScenes
    /\ other = EmptyScenes
    /\ last = NoOperation
    /\ mrg = NoMerge
    /\ method = ""
    /\ scenes_type = "list"
    /\ archive_pool = {}
    /\ prior = <<>>
    /\ usgs_user = ""
    /\ usgs_pass = ""
    /\ scenes = <<>>
    /\ req_bands = <<>>
    /\ service_chain = <<>>
    /\ pc = "idle"
    /\ bands = {}
    /\ band_order = <<>>
    /\ si = 0
    /\ ci = 0
    /\ scene_objs = EmptyScenes
    /\ s3f = NoS3Frame
    /\ fsf = NoFetchFrame
    /\ result = "running"
    /\ retval = EmptyScenes
    /\ exc = NoExc
    /\ remote = <<>>
    /\ local = <<>>
    /\ tmpdirs = {}
    /\ ntmp = 0
    /\ calls = <<>>
    /\ caught = <<>>

\* The variables the parsers leave alone.
tripstate == <<cls, method, scenes_type, archive_pool, prior, coll, other, last, fetched, mrg,
               usgs_user, usgs_pass, scenes, req_bands, service_chain, pc, bands,
               band_order, si, ci, scene_objs, s3f, fsf, result, retval, exc,
               remote, local, tmpdirs, ntmp, calls, caught>>

\* parse_sentinel_scene_id(id)
CallParseSceneId ==
    /\ trip.stage = "given"
    /\ trip' = [stage |-> "parsed", id |-> trip.id, parsed |-> ParseSentinelSceneId(trip.id)]
    /\ UNCHANGED tripstate

\* scene_interpreter(id), for an identifier parse_sentinel_scene_id accepts
CallSceneInterpreter ==
    /\ trip.stage = "parsed"
    /\ trip.parsed.ok
    /\ trip' = [stage |-> "path", id |-> trip.id, parsed |-> trip.parsed,
                path |-> S2ScenePath(trip.id)]
    /\ UNCHANGED tripstate

\* parse_amazon_s3_tile_path(path), as _relative_product_path calls it for a
\* relative-path builder (sentinel2.py:39-41)
CallParseTilePath ==
    /\ trip.stage = "path"
    /\ trip.path.ok
    /\ trip' = [stage |-> "back", id |-> trip.id, parsed |-> trip.parsed,
                path |-> trip.path, back |-> ParseAmazonS3TilePath(trip.path.path)]
    /\ UNCHANGED tripstate

NextRoundTrip == CallParseSceneId \/ CallSceneInterpreter \/ CallParseTilePath

SpecRoundTrip == InitRoundTrip /\ [][NextRoundTrip]_vars

\* C25: for every identifier parse_sentinel_scene_id accepts,
\* parse_amazon_s3_tile_path applied to scene_interpreter(identifier)
\* succeeds and gives the same UTM zone, latitude band, grid square,
\* acquisition date and sequence number.
C25_RoundTrip ==
    trip.stage = "back" =>
        /\ trip.back.ok
        /\ ToInt(trip.back.utm) = trip.parsed.utm
        /\ trip.back.lat = trip.parsed.lat
        /\ trip.back.square = trip.parsed.square
        /\ trip.back.date = trip.parsed.date
        /\ ToInt(trip.back.seq) = trip.parsed.seq

\* ------------------------------------------------- unrecognized designators
\* The chain holds a designator that is no recognized backend.
ChainMisconfigured == \E c \in DOMAIN service_chain : service_chain[c] \notin Recognized

\* The unsupported-backend error was delivered to the caller.
UnsupportedRaised ==
    /\ result = "raised"
    /\ exc.kind = "Landsat8DownloaderException" /\ exc.site = "landsat8.py:100"

\* C26 as stated: a Landsat8.download of scenes whose chain holds an
\* unrecognized designator never returns successfully.
C26_MisconfiguredChainNeverReturns ==
    (IsL8 /\ scenes # <<>> /\ ChainMisconfigured) => result # "returned"

\* C26 amended: the unsupported-backend error ends the call exactly when an
\* unrecognized designator is reached, that is when every designator before it
\* signalled the scene absent; a call that returns has served every scene
\* from a backend that no unrecognized designator precedes in the chain.
C26_UnsupportedFatalWhenReached ==
    IsL8 =>
      /\ UnsupportedRaised =>
            /\ ci \in DOMAIN service_chain /\ service_chain[ci] \notin Recognized
            /\ \A c \in 1..(ci - 1) : SignalledAbsent(si, c)
      /\ result = "returned" =>
            \A i \in DOMAIN scenes :
                /\ Records(i) # {}
                /\ \A p \in Records(i) : \A c \in 1..calls[p].ci : service_chain[c] \in Recognized

\* A call returned although its chain ends with an unrecognized designator:
\* the backend before it served the scenes.
C26_Witness ==
    /\ IsL8 /\ result = "returned" /\ scenes # <<>>
    /\ Len(service_chain) = 2 /\ service_chain[2] \notin Recognized

\* ------------------------------------------------- when an invalid band is reported
\* The call ended with the error band_filename raises for a token that is no
\* band.
InvalidBandRaised ==
    /\ result = "raised"
    /\ exc.kind = "IncorrectLandsat8SceneId" /\ exc.site = "landsat8.py:203"

\* C27: when a download ends with the invalid-band error, no remote object
\* has been fetched and no archive downloaded, on any backend.
C27_InvalidBandBeforeAnyFetch ==
    (IsL8 /\ InvalidBandRaised) => \A k \in DOMAIN calls : calls[k].op \notin FetchOps

\* ------------------------------------------------- bands spelled twice
\* Band requests that spell a band more than once: by name and by id, by
\* name and as a default, or repeated.
L8Spellings == {<<"red", "4">>, <<"quality", "QA">>, <<"4", "4">>, <<"red", "red", "nir">>}
S2Spellings == {<<"red", "4">>, <<"4", "4">>, <<"nir", "8", "red">>}

\* A download() call, of a Landsat8 or of a Sentinel2, with such a request;
\* the scene list may name a scene twice.
InitSpellings ==
    /\ method = "download"
    /\ scenes_type = "list"
    /\ archive_pool = DefaultArchives
    /\ \/ /\ cls = "Landsat8"
          /\ scenes \in {<<"LC80010092015051LGN00">>,
                          <<"LC80010092015051LGN00", "LC80010092015051LGN00">>}
          /\ req_bands \in L8Spellings
          /\ service_chain \in SeqUpTo(Designators, MaxChain)
          /\ usgs_user \in Credentials(service_chain, "user")
          /\ usgs_pass \in Credentials(service_chain, "secret")
       \/ /\ cls = "Sentinel2"
          /\ scenes \in SeqUpTo(S2SceneIds, MaxScenes)
          /\ req_bands \in S2Spellings
          /\ service_chain = <<>>
          /\ usgs_user = ""
          /\ usgs_pass = ""
    /\ InitCall

\* The steps of a download() call of either class.
NextDownload ==
    \/ NextLandsat8
    \/ S2Download
    \/ S3Fetch
    \/ S3AddScene
    \/ S3Return

SpecSpellings == InitSpellings /\ [][NextDownload]_vars

\* The remote object a probe or a fetch is for, and the backend attempt it
\* belongs to.
AttemptKey(c) == <<c.svc, c.si, c.ci, c.scene, c.item>>

Probes == {k \in DOMAIN calls : calls[k].op = "head"}
Fetches == {k \in DOMAIN calls : calls[k].op \in FetchOps}

\* No file is listed twice in a Scene of the collection.
ListedOnce(S) ==
    \A k \in DOMAIN S.scenes_list :
        LET files == S.scenes_list[k].files
        IN \A i, j \in DOMAIN files : files[i] = files[j] => i = j

MaxListLen == 6

\* Two Scenes collections built by Scenes(scenes=[...]); the caller is about
\* to merge one into the other, or one into itself.
InitMerge ==
    /\ coll \in {Construct(l) : l \in SeqUpTo(SceneObjects, 2)}
    /\ other \in {Construct(l) : l \in SeqUpTo(SceneObjects, 2)}
    /\ mrg = NoMerge
    /\ trip = NoTrip
    /\ fetched = <<>>
    /\ last = NoOperation
    /\ cls = "Scenes"
    /\ method = "merge"
    /\ scenes_type = "list"
    /\ archive_pool = {}
    /\ prior = <<>>
    /\ usgs_user = ""
    /\ usgs_pass = ""
    /\ scenes = <<>>
    /\ req_bands = <<>>
    /\ service_chain = <<>>
    /\ pc = "idle"
    /\ bands = {}
    /\ band_order = <<>>
    /\ si = 0
    /\ ci = 0
    /\ scene_objs = EmptyScenes
    /\ s3f = NoS3Frame
    /\ fsf = NoFetchFrame
    /\ result = "running"
    /\ retval = EmptyScenes
    /\ exc = NoExc
    /\ remote = <<>>
    /\ local = <<>>
    /\ tmpdirs = {}
    /\ ntmp = 0
    /\ calls = <<>>
    /\ caught = <<>>

\* The variables a merge leaves alone.
mergestate == <<cls, method, scenes_type, archive_pool, prior, last, fetched, trip,
                usgs_user, usgs_pass, scenes, req_bands, service_chain, pc, bands,
                band_order, si, ci, scene_objs, s3f, fsf, result, retval, exc,
                remote, local, tmpdirs, ntmp, calls, caught>>

\* download.py:72-76: coll.merge(other) or coll.merge(coll) is entered; the
\* argument is a Scenes, and `for s in scenes` starts at index 0.
MergeEnter ==
    /\ method = "merge"
    /\ mrg.stage = "none"
    /\ \E self \in BOOLEAN :
          mrg' = [stage |-> "loop", self |-> self, i |-> 0,
                  held |-> Len(IF self THEN coll.scenes_list ELSE other.scenes_list),
                  before |-> Len(coll.scenes_list)]
    /\ UNCHANGED <<coll, other, mergestate>>

\* The list `for s in scenes` reads through __getitem__ (download.py:37-39).
MergeSource == IF mrg.self THEN coll.scenes_list ELSE other.scenes_list

\* download.py:76-77: scenes[i] is read and added to the receiver.
MergeStep ==
    /\ mrg.stage = "loop"
    /\ mrg.i < Len(MergeSource)
    /\ Len(coll.scenes_list) < MaxListLen
    /\ coll' = ScenesAdd(coll, MergeSource[mrg.i + 1])
    /\ mrg' = [mrg EXCEPT !.i = @ + 1]
    /\ UNCHANGED <<other, mergestate>>

\* download.py:76: scenes[i] raises IndexError, which ends the for loop;
\* merge returns.
MergeReturn ==
    /\ mrg.stage = "loop"
    /\ mrg.i >= Len(MergeSource)
    /\ mrg' = [mrg EXCEPT !.stage = "returned"]
    /\ UNCHANGED <<coll, other, mergestate>>

NextMerge == MergeEnter \/ MergeStep \/ MergeReturn

SpecMerge == InitMerge /\ [][NextMerge]_vars

\* C29: a merge never appends more scenes than its argument held when merge
\* was called, whichever collection the argument is, and has appended exactly
\* that many when it returns.
C29_MergeAppendsWhatWasHeld ==
    mrg.stage # "none" =>
        /\ Len(coll.scenes_list) <= mrg.before + mrg.held
        /\ mrg.stage = "returned" => Len(coll.scenes_list) = mrg.before + mrg.held

====
